---- MODULE Spec2Model ----
(***************************************************************************)
(* Model of src/main.py: the line-reconstruction parser parse_items, the   *)
(* name cleaner, the article lookup map and the CSV rows.                  *)
(*                                                                         *)
(* A string is a sequence of Unicode code points (a Python str), so that   *)
(* the regular expressions and the str methods of the source are computed  *)
(* character by character.  A comment beside each literal gives its text.  *)
(***************************************************************************)
EXTENDS Integers, Sequences, FiniteSets, TLC

\* ------------------------------------------------------------ characters

\* U+20BD, the rouble sign of RX_ANY_RUB
RUB == 8381
\* U+00A0, the non-breaking space replaced by normalize_space
NBSP == 160
\* U+0020
SP == 32

\* \d of the re module, over the characters the model draws
IsDigit(c) == c \in 48..57

\* \s of the re module on a str, the same characters as str.isspace
IsSpace(c) ==
    \/ c \in 9..13
    \/ c \in 28..32
    \/ c \in {133, 160, 5760, 8232, 8233, 8239, 8287, 12288}
    \/ c \in 8192..8202

\* \w of the re module: digits, underscore, Latin and Cyrillic letters
IsWord(c) ==
    \/ c \in 48..57
    \/ c = 95
    \/ c \in 65..90
    \/ c \in 97..122
    \/ c \in 1024..1279

\* str.lower on one character: A-Z, the Cyrillic capitals, U+0400..U+040F
Lower(c) ==
    IF c \in 65..90 THEN c + 32
    ELSE IF c \in 1040..1071 THEN c + 32
    ELSE IF c \in 1024..1039 THEN c + 80
    ELSE c

\* [xх×] under re.IGNORECASE: x X, Cyrillic х Х, the multiplication sign
IsX(c) == c \in {120, 88, 1093, 1061, 215}

\* [  ] of the thousands groups
IsGroupSep(c) == c \in {32, 160}

\* [.,] of the decimal part
IsDecSep(c) == c \in {46, 44}

\* ------------------------------------------------------------ str methods

\* s[a..b] as a sequence, empty when a > b
Slice(s, a, b) == IF a > b THEN << >> ELSE SubSeq(s, a, b)

\* str.lower
lower(s) == [k \in 1..Len(s) |-> Lower(s[k])]

\* str.startswith
startswith(s, p) == Len(p) <= Len(s) /\ SubSeq(s, 1, Len(p)) = p

\* the in operator on two strings
contains(s, p) ==
    \E a \in 1..(Len(s) - Len(p) + 1) : SubSeq(s, a, a + Len(p) - 1) = p

\* str.strip with no argument
strip(s) ==
    LET keep == {k \in 1..Len(s) : ~IsSpace(s[k])}
    IN IF keep = {} THEN << >>
       ELSE LET a == CHOOSE k \in keep : \A m \in keep : k <= m
                b == CHOOSE k \in keep : \A m \in keep : k >= m
            IN SubSeq(s, a, b)

\* str.replace of one character by another
replace_char(s, old, new) == [k \in 1..Len(s) |-> IF s[k] = old THEN new ELSE s[k]]

RECURSIVE collapse_from(_, _)
\* re.sub(r"\s+", " ", s) from position k on: each whitespace run becomes one space
collapse_from(s, k) ==
    IF k > Len(s) THEN << >>
    ELSE IF IsSpace(s[k])
         THEN IF k > 1 /\ IsSpace(s[k - 1])
              THEN collapse_from(s, k + 1)
              ELSE <<SP>> \o collapse_from(s, k + 1)
         ELSE <<s[k]>> \o collapse_from(s, k + 1)

\* normalize_space without the final strip
normalize_space_unstripped(s) == collapse_from(replace_char(s, NBSP, SP), 1)

\* normalize_space: NBSP to space, whitespace runs to one space, strip
normalize_space(s) == strip(collapse_from(replace_char(s, NBSP, SP), 1))

\* the end of the digit run that starts at p (p - 1 when s[p] is no digit)
RECURSIVE digits_end(_, _)
digits_end(s, p) ==
    IF p <= Len(s) /\ IsDigit(s[p]) THEN digits_end(s, p + 1) ELSE p - 1

\* the end of the whitespace run that starts at p (p - 1 when there is none)
RECURSIVE spaces_end(_, _)
spaces_end(s, p) ==
    IF p <= Len(s) /\ IsSpace(s[p]) THEN spaces_end(s, p + 1) ELSE p - 1

\* int() of a string of digits
RECURSIVE int_of(_)
int_of(s) ==
    IF s = << >> THEN 0
    ELSE 10 * int_of(SubSeq(s, 1, Len(s) - 1)) + (s[Len(s)] - 48)

\* whether a \b boundary lies between s[k] and s[k + 1] (k = 0: before the
\* string, k = Len(s): after it)
boundary(s, k) ==
    (k >= 1 /\ k <= Len(s) /\ IsWord(s[k]))
        # (k + 1 >= 1 /\ k + 1 <= Len(s) /\ IsWord(s[k + 1]))

\* the least and the greatest element of a non-empty set of integers
Min(S) == CHOOSE a \in S : \A b \in S : a <= b
Max(S) == CHOOSE a \in S : \A b \in S : a >= b

\* ------------------------------------------------------------ regular expressions
\* A pattern is computed as the set of positions at which a match of it can
\* end: the engine backtracks over all of them, so the whole pattern matches
\* exactly when the rest matches from one of them.

\* the ends at which the groups (?:[  ]\d{3})* can stop, from the end e of \d+
RECURSIVE group_stops(_, _)
group_stops(s, e) ==
    IF e + 4 <= Len(s) /\ IsGroupSep(s[e + 1])
       /\ IsDigit(s[e + 2]) /\ IsDigit(s[e + 3]) /\ IsDigit(s[e + 4])
    THEN {e} \cup group_stops(s, e + 4)
    ELSE {e}

\* the ends of \d+(?:[  ]\d{3})*(?:[.,]\d+)? from p: the number of
\* RX_MONEY_LINE and of the price and sum groups of RX_PRICE_QTY_SUM
number_ends(s, p) ==
    IF ~(p >= 1 /\ p <= Len(s) /\ IsDigit(s[p])) THEN {}
    ELSE LET stops == UNION {group_stops(s, e) : e \in p..digits_end(s, p)}
             dots == {g \in stops : g + 2 <= Len(s) /\ IsDecSep(s[g + 1])
                                    /\ IsDigit(s[g + 2])}
         IN stops \cup UNION {(g + 2)..digits_end(s, g + 2) : g \in dots}

\* the positions of the rouble sign that \s*₽ reaches after a match ending at e
rub_after(s, e) ==
    {r \in (e + 1)..(spaces_end(s, e + 1) + 1) : r <= Len(s) /\ s[r] = RUB}

\* RX_MONEY_LINE.fullmatch: ^\d+(?:[  ]\d{3})*(?:[.,]\d+)?\s*₽$
RX_MONEY_LINE(s) ==
    \E e \in number_ends(s, 1) : \E r \in rub_after(s, e) : r = Len(s)

\* RX_INT.fullmatch: ^\d+$
RX_INT(s) == Len(s) >= 1 /\ \A k \in 1..Len(s) : IsDigit(s[k])

\* RX_ANY_RUB.search
RX_ANY_RUB(s) == \E k \in 1..Len(s) : s[k] = RUB

\* the qty group of the match of RX_PRICE_QTY_SUM that continues after the
\* rouble sign at r: \s+ qty \s+ sum \s*₽ with qty = \d{1,4}.  Each \s+ ends
\* where a digit starts and qty ends where whitespace starts, so qty is the
\* whole digit run after the whitespace.
qty_after(s, r) ==
    LET a == spaces_end(s, r + 1) + 1
        b == digits_end(s, a)
        u == spaces_end(s, b + 1) + 1
    IN IF /\ a > r + 1 /\ b >= a /\ b - a + 1 <= 4
          /\ u > b + 1
          /\ \E e2 \in number_ends(s, u) : rub_after(s, e2) # {}
       THEN {SubSeq(s, a, b)}
       ELSE {}

\* the qty groups of the matches of RX_PRICE_QTY_SUM that start at p:
\* price \s*₽ and then the rest
price_qty_sum_at(s, p) ==
    UNION {qty_after(s, r) :
             r \in UNION {rub_after(s, e) : e \in number_ends(s, p)}}

\* RX_PRICE_QTY_SUM.search: the start of the leftmost match, 0 when none
RX_PRICE_QTY_SUM(s) ==
    LET starts == {p \in 1..Len(s) : price_qty_sum_at(s, p) # {}}
    IN IF starts = {} THEN 0 ELSE Min(starts)

\* m.group("qty") of the leftmost match of RX_PRICE_QTY_SUM
group_qty(s) ==
    CHOOSE g \in price_qty_sum_at(s, RX_PRICE_QTY_SUM(s)) : TRUE

\* RX_SIZE.search: \b\d{2,}[xх×]\d{2,}(?:[xх×]\d{1,})?\b, re.IGNORECASE
RX_SIZE(s) ==
    \E p \in 1..Len(s) :
        /\ IsDigit(s[p]) /\ boundary(s, p - 1)
        /\ \E e1 \in (p + 1)..digits_end(s, p) :
              /\ e1 + 1 <= Len(s) /\ IsX(s[e1 + 1])
              /\ \E e2 \in (e1 + 3)..digits_end(s, e1 + 2) :
                    \/ boundary(s, e2)
                    \/ /\ e2 + 1 <= Len(s) /\ IsX(s[e2 + 1])
                       /\ \E e3 \in (e2 + 2)..digits_end(s, e2 + 2) :
                             boundary(s, e3)

\* RX_MM.search: мм, re.IGNORECASE
RX_MM(s) == contains(lower(s), <<1084, 1084>>)  \* "мм"

\* RX_WEIGHT.search: \b\d+(?:[.,]\d+)?\s*кг\.?\b, re.IGNORECASE
RX_WEIGHT(s) ==
    \E p \in 1..Len(s) :
        /\ IsDigit(s[p]) /\ boundary(s, p - 1)
        /\ \E e1 \in p..digits_end(s, p) :
           \E e2 \in {e1} \cup
                     (IF e1 + 2 <= Len(s) /\ IsDecSep(s[e1 + 1])
                      THEN (e1 + 2)..digits_end(s, e1 + 2) ELSE {}) :
           \E k \in e2..spaces_end(s, e2 + 1) :
              /\ k + 2 <= Len(s)
              /\ lower(SubSeq(s, k + 1, k + 2)) = <<1082, 1075>>  \* "кг"
              /\ \/ boundary(s, k + 2)
                 \/ k + 3 <= Len(s) /\ s[k + 3] = 46 /\ boundary(s, k + 3)

\* the ends of the matches of RX_DIMS_ANYWHERE that start at p:
\* \s*\d{1,4}[xх×]\d{1,4}(?:[xх×]\d{1,5})?\s*мм\.?\s*, re.IGNORECASE
dims_ends(s, p) ==
    LET a == spaces_end(s, p) + 1
    IN IF ~(a <= Len(s) /\ IsDigit(s[a])) THEN {}
       ELSE {f \in a..Len(s) :
                \E e1 \in a..Min({a + 3, digits_end(s, a)}) :
                    /\ e1 + 1 <= Len(s) /\ IsX(s[e1 + 1])
                    /\ \E e2 \in (e1 + 2)..Min({e1 + 5, digits_end(s, e1 + 2)}) :
                       \E t \in {e2} \cup
                                (IF e2 + 1 <= Len(s) /\ IsX(s[e2 + 1])
                                 THEN (e2 + 2)..Min({e2 + 6, digits_end(s, e2 + 2)})
                                 ELSE {}) :
                       \E k \in t..spaces_end(s, t + 1) :
                          /\ k + 2 <= Len(s)
                          /\ lower(SubSeq(s, k + 1, k + 2)) = <<1084, 1084>>  \* "мм"
                          /\ \E d \in {k + 2} \cup
                                      (IF k + 3 <= Len(s) /\ s[k + 3] = 46
                                       THEN {k + 3} ELSE {}) :
                                f \in d..spaces_end(s, d + 1)}

\* RX_DIMS_ANYWHERE.sub(" ", s) from position p on: the leftmost match at or
\* after p, taken greedily, becomes one space
RECURSIVE dims_sub(_, _)
dims_sub(s, p) ==
    IF p > Len(s) THEN << >>
    ELSE IF dims_ends(s, p) # {}
         THEN <<SP>> \o dims_sub(s, Max(dims_ends(s, p)) + 1)
         ELSE <<s[p]>> \o dims_sub(s, p + 1)

\* normalize_key: lower case, × and х to x, dimensions removed
normalize_key(name) ==
    LET s1 == lower(normalize_space(name))
        s2 == replace_char(replace_char(s1, 215, 120), 1093, 120)
    IN normalize_space(dims_sub(s2, 1))

\* strip_dims_anywhere
strip_dims_anywhere(name) == normalize_space(dims_sub(normalize_space(name), 1))

\* ------------------------------------------------------------ line predicates

\* is_noise
is_noise(line) ==
    LET low == lower(strip(line))
    IN \/ low = << >>
       \/ startswith(low, <<1089, 1090, 1088, 1072, 1085, 1080, 1094, 1072, 58>>)  \* "страница:"
       \/ startswith(low, <<1074, 1072, 1096, 32, 1087, 1088, 1086, 1077, 1082, 1090>>)  \* "ваш проект"
       \/ contains(low, <<1087, 1088, 1086, 1077, 1082, 1090, 32, 1089, 1086, 1079, 1076, 1072, 1085>>)  \* "проект создан"
       \/ contains(low, <<1088, 1072, 1079, 1074, 1077, 1088, 1090, 1082, 1072, 32, 1089, 1090, 1077, 1085, 1099>>)  \* "развертка стены"
       \/ contains(low, <<1089, 1090, 1086, 1080, 1084, 1086, 1089, 1090, 1100, 32, 1087, 1088, 1086, 1077, 1082, 1090, 1072>>)  \* "стоимость проекта"

\* is_totals_block
is_totals_block(line) ==
    LET low == lower(strip(line))
    IN \/ startswith(low, <<1086, 1073, 1097, 1080, 1081, 32, 1074, 1077, 1089>>)  \* "общий вес"
       \/ startswith(low, <<1084, 1072, 1082, 1089, 1080, 1084, 1072, 1083, 1100, 1085, 1099, 1081, 32, 1075, 1072, 1073, 1072, 1088, 1080, 1090, 32, 1079, 1072, 1082, 1072, 1079, 1072>>)  \* "максимальный габарит заказа"
       \/ startswith(low, <<1072, 1076, 1088, 1077, 1089, 58>>)  \* "адрес:"
       \/ startswith(low, <<1090, 1077, 1083, 1077, 1092, 1086, 1085, 58>>)  \* "телефон:"
       \/ startswith(low, <<101, 109, 97, 105, 108>>)  \* "email"

\* the string money_to_number hands to float(): the rouble signs removed,
\* stripped, the spaces removed, each comma turned into a point
money_text(line) ==
    LET s1 == strip(SelectSeq(normalize_space(line), LAMBDA c : c # RUB))
        s2 == SelectSeq(s1, LAMBDA c : c # SP)
    IN replace_char(s2, 44, 46)

\* whether float() accepts a string of digits and points: at most one point
\* and at least one digit, nothing else
float_ok(s) ==
    /\ \A k \in 1..Len(s) : IsDigit(s[k]) \/ s[k] = 46
    /\ Cardinality({k \in 1..Len(s) : s[k] = 46}) <= 1
    /\ \E k \in 1..Len(s) : IsDigit(s[k])

\* money_to_number: int(float(s)) drops the fraction; -1 is the except branch.
\* (A float keeps 53 bits, so the value is exact below 2^53.)
money_to_number(line) ==
    LET s == money_text(line)
    IN IF float_ok(s) THEN int_of(Slice(s, 1, digits_end(s, 1))) ELSE -1

\* the threshold of is_project_total_only
PROJECT_TOTAL_MIN == 10000

\* is_project_total_only
is_project_total_only(line, prev_line) ==
    IF ~RX_MONEY_LINE(normalize_space(line)) THEN FALSE
    ELSE IF contains(lower(normalize_space(prev_line)), <<1089, 1090, 1086, 1080, 1084, 1086, 1089, 1090, 1100, 32, 1087, 1088, 1086, 1077, 1082, 1090, 1072>>)  \* "стоимость проекта"
         THEN TRUE
         ELSE money_to_number(line) >= PROJECT_TOTAL_MIN

\* the column titles of is_header_token:
\* id, фото, товар, габариты, вес, цена за шт, кол-во, сумма
HEADER_TOKENS ==
    {<<105, 100>>, <<1092, 1086, 1090, 1086>>, <<1090, 1086, 1074, 1072, 1088>>, <<1075, 1072, 1073, 1072, 1088, 1080, 1090, 1099>>, <<1074, 1077, 1089>>, <<1094, 1077, 1085, 1072, 32, 1079, 1072, 32, 1096, 1090>>,  \* "id" "фото" "товар" "габариты" "вес" "цена за шт"
     <<1082, 1086, 1083, 45, 1074, 1086>>, <<1089, 1091, 1084, 1084, 1072>>}  \* "кол-во" "сумма"

\* is_header_token: the en dash U+2013 and the em dash U+2014 become a hyphen
is_header_token(line) ==
    LET low == replace_char(replace_char(lower(normalize_space(line)),
                                         8211, 45), 8212, 45)
    IN \/ /\ contains(low, <<105, 100>>)  \* "id"
          /\ contains(low, <<1090, 1086, 1074, 1072, 1088>>)  \* "товар"
          /\ contains(low, <<1082, 1086, 1083, 45, 1074, 1086>>)  \* "кол-во"
          /\ contains(low, <<1089, 1091, 1084, 1084, 1072>>)  \* "сумма"
       \/ low \in HEADER_TOKENS

\* looks_like_dim_or_weight
looks_like_dim_or_weight(line) ==
    RX_WEIGHT(line) \/ (RX_SIZE(line) /\ RX_MM(line))

\* looks_like_money_or_qty
looks_like_money_or_qty(line) == RX_MONEY_LINE(line) \/ RX_INT(line)

\* ------------------------------------------------------------ name cleaner

\* " ".join(lines)
RECURSIVE join(_)
join(lines) ==
    IF lines = << >> THEN << >>
    ELSE IF Len(lines) = 1 THEN lines[1]
    ELSE lines[1] \o <<SP>> \o join(Tail(lines))

\* the first loop of clean_name_from_buffer: noise, header and totals lines out
filter_buffer(buf) ==
    SelectSeq(buf, LAMBDA ln :
        ~(is_noise(ln) \/ is_header_token(ln) \/ is_totals_block(ln)))

\* the while loop of clean_name_from_buffer: the trailing dimension, weight,
\* money and quantity lines are popped
RECURSIVE pop_tails(_)
pop_tails(filtered) ==
    IF filtered # << >>
       /\ (looks_like_dim_or_weight(filtered[Len(filtered)])
           \/ looks_like_money_or_qty(filtered[Len(filtered)]))
    THEN pop_tails(SubSeq(filtered, 1, Len(filtered) - 1))
    ELSE filtered

\* re.sub(r"^<word>\s*", "", name, flags=re.IGNORECASE).strip()
strip_prefix(name, word) ==
    IF startswith(lower(name), word)
    THEN strip(Slice(name, spaces_end(name, Len(word) + 1) + 1, Len(name)))
    ELSE strip(name)

\* re.sub(r"^(?:ID\s*)?\d{6,}\s+", "", name, flags=re.IGNORECASE).strip()
strip_leading_id(name) ==
    LET d == IF startswith(lower(name), <<105, 100>>)  \* "id"
             THEN spaces_end(name, 3) + 1 ELSE 1
        e == digits_end(name, d)
    IN IF e - d + 1 >= 6 /\ e + 1 <= Len(name) /\ IsSpace(name[e + 1])
       THEN strip(Slice(name, spaces_end(name, e + 1) + 1, Len(name)))
       ELSE strip(name)

\* clean_name_from_buffer
clean_name_from_buffer(buf) ==
    LET filtered == pop_tails(filter_buffer(buf))
        name0 == normalize_space(join(filtered))
        name1 == strip_prefix(name0, <<1092, 1086, 1090, 1086>>)  \* "фото"
        name2 == strip_prefix(name1, <<1090, 1086, 1074, 1072, 1088>>)  \* "товар"
        name3 == strip_leading_id(name2)
    IN strip_dims_anywhere(name3)

\* ------------------------------------------------------------ article map

\* A cell value of the lookup sheet, as openpyxl returns it: None, a str or
\* an int.
NoneCell == [t |-> "none"]
StrCell(s) == [t |-> "str", v |-> s]
IntCell(n) == [t |-> "int", v |-> n]

\* truth value of a cell value: None, "" and 0 are false
truthy(c) ==
    CASE c.t = "none" -> FALSE
      [] c.t = "str" -> c.v # << >>
      [] c.t = "int" -> c.v # 0

\* str() of a non-negative int
RECURSIVE str_of_nat(_)
str_of_nat(n) ==
    IF n < 10 THEN <<48 + n>>
    ELSE str_of_nat(n \div 10) \o <<48 + (n % 10)>>

\* str() of a cell value that is not None
str_of(c) ==
    IF c.t = "str" THEN c.v
    ELSE IF c.v < 0 THEN <<45>> \o str_of_nat(0 - c.v)
    ELSE str_of_nat(c.v)

\* the default of ART_VALUE_COLUMN: "Кастомный ID"
DESIRED_VALUE_COLUMN == <<1050, 1072, 1089, 1090, 1086, 1084, 1085, 1099, 1081, 32, 73, 68>>  \* "Кастомный ID"

\* the header row: [normalize_space(ws.cell(1, c).value or "") ...]
header_of(sheet) ==
    [c \in 1..Len(sheet.header) |->
        IF truthy(sheet.header[c]) THEN normalize_space(sheet.header[c].v)
        ELSE << >>]

\* the product-name column: the last header equal to "товар" in lower case,
\* the first column when there is none
tovar_col(header) ==
    LET hits == {c \in 1..Len(header) : lower(header[c]) = <<1090, 1086, 1074, 1072, 1088>>}  \* "товар"
    IN IF hits = {} THEN 1 ELSE Max(hits)

\* the value column: the last header equal to the desired column, else the
\* first header equal to "артикул" in lower case, else 0 (None)
value_col(header) ==
    LET hits == {c \in 1..Len(header) : header[c] = normalize_space(DESIRED_VALUE_COLUMN)}
        fall == {c \in 1..Len(header) : lower(header[c]) = <<1072, 1088, 1090, 1080, 1082, 1091, 1083>>}  \* "артикул"
    IN IF hits # {} THEN Max(hits)
       ELSE IF fall # {} THEN Min(fall)
       ELSE 0

\* m[key] = val on a map held as a function
map_put(m, key, val) ==
    [k \in DOMAIN m \cup {key} |-> IF k = key THEN val ELSE m[k]]

\* the row loop of load_article_map, from row r of the data rows on
RECURSIVE load_rows(_, _, _, _, _)
load_rows(rows, r, tc, vc, m) ==
    IF r > Len(rows) THEN m
    ELSE LET tovar == rows[r][tc]
             val == rows[r][vc]
         IN IF ~truthy(tovar) \/ val.t = "none"
            THEN load_rows(rows, r + 1, tc, vc, m)
            ELSE LET tovar_s == normalize_space(str_of(tovar))
                     val_s == normalize_space(str_of(val))
                 IN IF tovar_s = << >> \/ val_s = << >>
                    THEN load_rows(rows, r + 1, tc, vc, m)
                    ELSE load_rows(rows, r + 1, tc, vc,
                                   map_put(m, normalize_key(tovar_s), val_s))

\* the empty map {}
EmptyMap == [k \in {} |-> << >>]

\* load_article_map on an opened sheet: the map and the status
load_article_map(sheet) ==
    LET header == header_of(sheet)
    IN IF value_col(header) = 0
       THEN [map |-> EmptyMap, status |-> "bad_header"]
       ELSE [map |-> load_rows(sheet.rows, 1, tovar_col(header),
                               value_col(header), EmptyMap),
             status |-> "ok"]

\* the statuses of a load that failed: the library is missing, the file is
\* missing, the workbook cannot be opened (the path and the text of the
\* exception that follow the colon are left out)
LOAD_FAILURES == {"openpyxl_not_installed", "file_not_found", "cannot_open"}

\* load_article_map without the test of the path and without the try: the
\* sheet is read whether or not the file is there and opens
load_article_map_unguarded(env) ==
    IF ~env.openpyxl
    THEN [map |-> EmptyMap, status |-> "openpyxl_not_installed"]
    ELSE load_article_map(env.sheet)

\* load_article_map() at import, in the environment env: openpyxl imported or
\* None, the file at ART_XLSX_PATH there or not, load_workbook and the first
\* sheet opening or raising; then the load of the opened sheet
load_article_map_at_import(env) ==
    IF ~env.openpyxl
    THEN [map |-> EmptyMap, status |-> "openpyxl_not_installed"]
    ELSE IF ~env.exists
    THEN [map |-> EmptyMap, status |-> "file_not_found"]
    ELSE IF ~env.opens
    THEN [map |-> EmptyMap, status |-> "cannot_open"]
    ELSE load_article_map(env.sheet)

\* ARTICLE_MAP.get(key, "")
map_get(m, key) == IF key \in DOMAIN m THEN m[key] ELSE << >>

\* ------------------------------------------------------------ parse_items helpers

\* the quantity range of both anchors: 1 <= qty <= 500
QTY_MIN == 1
QTY_MAX == 500

\* the lookahead of the multiline anchor: end = min(len(lines), i + 8)
LOOKAHEAD == 8

\* ordered.get(name, 0), the aggregate table held as a sequence of entries in
\* insertion order (an OrderedDict)
ordered_get(ord, name) ==
    IF \E k \in 1..Len(ord) : ord[k].name = name
    THEN ord[CHOOSE k \in 1..Len(ord) : ord[k].name = name].qty
    ELSE 0

\* ordered[name] = qty: the later item overwrites the earlier one
ordered_overwrite(ord, name, qty) ==
    IF \E k \in 1..Len(ord) : ord[k].name = name
    THEN [k \in 1..Len(ord) |->
            IF ord[k].name = name THEN [name |-> name, qty |-> qty] ELSE ord[k]]
    ELSE Append(ord, [name |-> name, qty |-> qty])

\* ordered[name] = ordered.get(name, 0) + qty: an existing key keeps its
\* place, a new key goes to the end
ordered_add(ord, name, qty) ==
    IF \E k \in 1..Len(ord) : ord[k].name = name
    THEN [k \in 1..Len(ord) |->
            IF ord[k].name = name
            THEN [name |-> name, qty |-> ordered_get(ord, name) + qty]
            ELSE ord[k]]
    ELSE Append(ord, [name |-> name, qty |-> qty])

\* qty_in_range without the range test: any bare integer is a quantity
qty_any_integer(ln) == RX_INT(ln)

\* RX_INT.fullmatch(lines[j]) and 1 <= int(lines[j]) <= 500
qty_in_range(ln) ==
    RX_INT(ln) /\ int_of(ln) >= QTY_MIN /\ int_of(ln) <= QTY_MAX

\* the data rows with the lookup by the name as it is, not by its key
make_csv_by_raw_name(rows, m) ==
    [k \in 1..Len(rows) |->
        [id |-> map_get(m, rows[k].name),
         name |-> rows[k].name,
         qty |-> rows[k].qty]]

\* the data rows of make_csv_excel_friendly: for name, qty in rows the row
\* [ARTICLE_MAP.get(normalize_key(name), ""), name, qty]
make_csv_excel_friendly(rows, m) ==
    [k \in 1..Len(rows) |->
        [id |-> map_get(m, normalize_key(rows[k].name)),
         name |-> rows[k].name,
         qty |-> rows[k].qty]]

\* ------------------------------------------------------------ extract helpers

\* the status codes of extract: the plain Response and the three HTTPExceptions
HTTP_OK == 200
HTTP_BAD_REQUEST == 400
HTTP_UNPROCESSABLE == 422
HTTP_SERVER_ERROR == 500

\* increment_counter: v = _read_counter() + 1; _write_counter(v)
increment_counter(v) == v + 1

\* ------------------------------------------------------------ inputs

\* the number of line groups a document is made of, over all its pages
MaxBlocks == 3

\* The line groups (raw lines, as splitlines gives them) that the pages of a
\* document are made of.  U+00A0 and doubled spaces are for normalize_space.
Blocks ==
    {<<<<1057, 1090, 1086, 1083>>>>,                                      \* a plain name : "Стол"
     <<<<1055, 1086, 1083, 1082, 1072, 32, 54, 48, 55, 120, 49, 52, 120, 52, 48, 53, 32, 1084, 1084>>>>,                       \* a name with a dimension in мм : "Полка 607x14x405 мм"
     <<<<1057, 1090, 1086, 1083>>, <<49, 32, 53, 48, 48, 32, 8381>>, <<50>>, <<51, 32, 48, 48, 48, 32, 8381>>>>,     \* name, price, quantity, sum : "Стол" "1 500 ₽" "2" "3 000 ₽"
     <<<<1055, 1086, 1083, 1082, 1072, 32, 51, 48, 48, 120, 50, 48, 48>>, <<52, 53, 48, 32, 8381, 32, 49, 32, 52, 53, 48, 32, 8381>>>>,          \* name, then price quantity sum in one line : "Полка 300x200" "450 ₽ 1 450 ₽"
     <<<<49, 32, 53, 48, 48, 32, 8381>>, <<50>>, <<51, 32, 48, 48, 48, 32, 8381>>>>,               \* price, quantity, sum : "1 500 ₽" "2" "3 000 ₽"
     <<<<49, 32, 53, 48, 48, 32, 8381>>, <<57, 57, 57>>, <<51, 32, 48, 48, 48, 32, 8381>>>>,             \* price, quantity out of range, sum : "1 500 ₽" "999" "3 000 ₽"
     <<<<52, 53, 48, 32, 8381, 32, 49, 32, 52, 53, 48, 32, 8381>>>>,                             \* price, quantity and sum in one line : "450 ₽ 1 450 ₽"
     <<<<52, 53, 48, 32, 8381, 32, 32, 48, 32, 52, 53, 48, 32, 8381>>>>,                            \* the same with quantity 0 : "450 ₽  0 450 ₽"
     <<<<32, 1040, 1076, 1088, 1077, 1089, 58, 32, 1052, 1086, 1089, 1082, 1074, 1072>>>>,                            \* a totals-block line : " Адрес: Москва"
     <<<<1057, 1090, 1086, 1080, 1084, 1086, 1089, 1090, 1100, 32, 1087, 1088, 1086, 1077, 1082, 1090, 1072>>, <<51, 32, 48, 48, 48, 32, 8381>>>>,       \* a noise line, then the project total : "Стоимость проекта" "3 000 ₽"
     <<<<53, 48, 32, 48, 48, 48, 32, 8381>>>>                                   \* a money-only line of 10000 or more : "50 000 ₽"
    }

\* The line groups of the documents on which the steps of the scan are
\* followed one by one: the lookahead of the multiline anchor, the unresolved
\* money line, the skipped lines
ScanBlocks ==
    {<<<<1057, 1090, 1086, 1083>>>>,                                      \* a plain name : "Стол"
     <<<<1058, 1086, 1074, 1072, 1088>>>>,                                     \* a header token : "Товар"
     <<<<1057, 1090, 1086, 1083>>, <<49, 32, 53, 48, 48, 32, 8381>>, <<50>>, <<51, 32, 48, 48, 48, 32, 8381>>>>,     \* name, price, quantity, sum : "Стол" "1 500 ₽" "2" "3 000 ₽"
     <<<<49, 32, 53, 48, 48, 32, 8381>>, <<32, 1040, 1076, 1088, 1077, 1089, 58, 32, 1052, 1086, 1089, 1082, 1074, 1072>>, <<50>>, <<51, 32, 48, 48, 48, 32, 8381>>>>,  \* a totals-block line after the price : "1 500 ₽" " Адрес: Москва" "2" "3 000 ₽"
     <<<<52, 53, 48, 32, 8381>>, <<50, 32, 57, 48, 48, 32, 8381>>>>,                        \* price, then quantity and sum in one line : "450 ₽" "2 900 ₽"
     <<<<49, 32, 53, 48, 48, 32, 8381>>, <<57, 57, 57>>, <<51, 32, 48, 48, 48, 32, 8381>>>>,             \* price, quantity out of range, sum : "1 500 ₽" "999" "3 000 ₽"
     <<<<52, 53, 48, 32, 8381>>, <<50>>>>,                              \* price and quantity without a sum : "450 ₽" "2"
     <<<<1055, 1086, 1083, 1082, 1072, 32, 51, 48, 48, 120, 50, 48, 48>>, <<52, 53, 48, 32, 8381, 32, 49, 32, 52, 53, 48, 32, 8381>>>>,          \* name, then price quantity sum in one line : "Полка 300x200" "450 ₽ 1 450 ₽"
     <<<<1057, 1090, 1086, 1080, 1084, 1086, 1089, 1090, 1100, 32, 1087, 1088, 1086, 1077, 1082, 1090, 1072>>, <<51, 32, 48, 48, 48, 32, 8381>>>>        \* a noise line, then the project total : "Стоимость проекта" "3 000 ₽"
    }

\* The line groups of the documents with long pages, on which the end of the
\* lookahead window is met: a name and a price followed by 5, 6 or 7 header
\* tokens (lines the scan skips and the lookahead counts), then a quantity
\* and a sum
WindowBlocks ==
    {<<<<1057, 1090, 1086, 1083>>, <<49, 32, 53, 48, 48, 32, 8381>>, <<1042, 1077, 1089>>, <<1042, 1077, 1089>>, <<1042, 1077, 1089>>, <<1042, 1077, 1089>>, <<1042, 1077, 1089>>>>,  \* "Стол" "1 500 ₽" "Вес" "Вес" "Вес" "Вес" "Вес"
     <<<<1057, 1090, 1086, 1083>>, <<49, 32, 53, 48, 48, 32, 8381>>, <<1042, 1077, 1089>>, <<1042, 1077, 1089>>, <<1042, 1077, 1089>>, <<1042, 1077, 1089>>, <<1042, 1077, 1089>>, <<1042, 1077, 1089>>>>,  \* "Стол" "1 500 ₽" "Вес" "Вес" "Вес" "Вес" "Вес" "Вес"
     <<<<1057, 1090, 1086, 1083>>, <<49, 32, 53, 48, 48, 32, 8381>>, <<1042, 1077, 1089>>, <<1042, 1077, 1089>>, <<1042, 1077, 1089>>, <<1042, 1077, 1089>>, <<1042, 1077, 1089>>, <<1042, 1077, 1089>>, <<1042, 1077, 1089>>>>,  \* "Стол" "1 500 ₽" "Вес" "Вес" "Вес" "Вес" "Вес" "Вес" "Вес"
     <<<<50>>, <<51, 32, 48, 48, 48, 32, 8381>>>>,                            \* quantity, sum : "2" "3 000 ₽"
     <<<<1055, 1086, 1083, 1082, 1072, 32, 51, 48, 48, 120, 50, 48, 48>>, <<52, 53, 48, 32, 8381, 32, 49, 32, 52, 53, 48, 32, 8381>>>>,          \* name, then price quantity sum in one line : "Полка 300x200" "450 ₽ 1 450 ₽"
     <<<<1057, 1090, 1086, 1080, 1084, 1086, 1089, 1090, 1100, 32, 1087, 1088, 1086, 1077, 1082, 1090, 1072>>, <<51, 32, 48, 48, 48, 32, 8381>>>>        \* a noise line, then the project total : "Стоимость проекта" "3 000 ₽"
    }

\* the page texts of a document made of the line groups bs, in their order: a
\* new page starts at group 1 and at every group whose index is in starts
RECURSIVE pages_of(_, _, _)
pages_of(bs, starts, k) ==
    IF k = 0 THEN << >>
    ELSE LET before == pages_of(bs, starts, k - 1)
         IN IF k = 1 \/ k \in starts
            THEN Append(before, bs[k])
            ELSE [before EXCEPT ![Len(before)] = @ \o bs[k]]

\* the numbers of line groups of the documents parse_items is given
DocSizes == 0..MaxBlocks

\* the length of the strings normalize_space is called with
MaxLen == 5

\* the characters of those strings: a letter, the space, the non-breaking
\* space, \t, \n and U+202F (a whitespace character that is not replaced)
Chars == {97, SP, NBSP, 9, 10, 8239}

\* the number of lines of the buffers clean_name_from_buffer is called with
MaxBuf == 3

\* the lines of those buffers
BufLines ==
    {<<1057, 1090, 1086, 1083>>,                \* name text : "Стол"
     <<1073, 1077, 1083, 1099, 1081>>,               \* name text : "белый"
     <<49, 32, 53, 48, 48, 32, 8381>>,             \* a money-only line : "1 500 ₽"
     <<57, 57, 57>>,                 \* a bare integer : "999"
     <<1058, 1086, 1074, 1072, 1088>>,               \* a header token : "Товар"
     <<1057, 1090, 1086, 1080, 1084, 1086, 1089, 1090, 1100, 32, 1087, 1088, 1086, 1077, 1082, 1090, 1072>>}   \* a noise line : "Стоимость проекта"

\* the lookup sheet the module finds at import: the header row and the data
\* rows, among them rows with the value 0, "0", "" and None and a row with no name
Sheets ==
    {[header |-> <<StrCell(<<1058, 1086, 1074, 1072, 1088>>), StrCell(<<1040, 1088, 1090, 1080, 1082, 1091, 1083>>)>>,  \* "Товар" "Артикул"
      rows |-> <<
        <<StrCell(<<1057, 1090, 1086, 1083>>), StrCell(<<65, 45, 49, 48, 48>>)>>,  \* "Стол" "A-100"
        <<StrCell(<<1055, 1086, 1083, 1082, 1072, 32, 51, 48, 48, 120, 50, 48, 48>>), IntCell(0)>>,  \* "Полка 300x200"
        <<StrCell(<<1064, 1082, 1072, 1092>>), StrCell(<<48>>)>>,  \* "Шкаф" "0"
        <<StrCell(<<1057, 1090, 1091, 1083>>), StrCell(<<32>>)>>,  \* "Стул" " "
        <<StrCell(<<1044, 1080, 1074, 1072, 1085>>), NoneCell>>,  \* "Диван"
        <<NoneCell, StrCell(<<66, 45, 55>>)>> >>]}  \* "B-7"

\* the environment in which the lookup sheet loads
Installed ==
    {[openpyxl |-> TRUE, exists |-> TRUE, opens |-> TRUE, sheet |-> s] :
        s \in Sheets}

\* the environments of the import: the one above, and those where openpyxl is
\* missing, the file is missing or the workbook does not open
Environments ==
    Installed
    \cup {[openpyxl |-> FALSE, exists |-> TRUE, opens |-> TRUE, sheet |-> s] :
             s \in Sheets}
    \cup {[openpyxl |-> TRUE, exists |-> FALSE, opens |-> FALSE, sheet |-> s] :
             s \in Sheets}
    \cup {[openpyxl |-> TRUE, exists |-> TRUE, opens |-> FALSE, sheet |-> s] :
             s \in Sheets}

\* the outcome of load_article_map() in every environment, computed once
ImportOutcomes ==
    {[env |-> e, map |-> load_article_map_at_import(e).map,
      status |-> load_article_map_at_import(e).status] : e \in Environments}

\* the numbers of line groups of the documents converted in every environment
EnvDocSizes == 0..(MaxBlocks - 1)

\* the numbers COUNTER_FILE holds when the request arrives
CounterStarts == {0, 1, 41}

\* ------------------------------------------------------------ line table
\* normalize_space and the predicates of the scan loop depend on the line alone
\* (and on the line before it), so they are computed once for every line of
\* the input; the scan reads the outcome from these tables.

\* the raw lines of the input
RawLines ==
    UNION {{b[k] : k \in 1..Len(b)} : b \in Blocks \cup ScanBlocks \cup WindowBlocks}

\* normalize_space of every raw line, and whether it holds a rouble sign
RawFacts ==
    {[raw |-> x, normalized |-> normalize_space(x), rub |-> RX_ANY_RUB(x)] :
        x \in RawLines}

\* the outcomes for raw line x
raw_fact(x) == CHOOSE f \in RawFacts : f.raw = x

\* lines = [normalize_space(x) for x in txt.splitlines()] without the empty ones
page_lines(txt) ==
    SelectSeq([k \in 1..Len(txt) |-> raw_fact(txt[k]).normalized],
              LAMBDA x : x # << >>)

\* "₽" not in txt, the page text held as its lines
has_rub(txt) == \E k \in 1..Len(txt) : raw_fact(txt[k]).rub

\* the normalized lines of the input
KnownLines == {f.normalized : f \in RawFacts}

\* each line with the outcome of every test the scan loop makes on it, and
\* int(m.group("qty")) of the inline match (0 when there is no match)
LineFacts ==
    {[line |-> l,
      is_noise |-> is_noise(l),
      is_header_token |-> is_header_token(l),
      is_totals_block |-> is_totals_block(l),
      inline |-> RX_PRICE_QTY_SUM(l) # 0,
      inline_qty |-> IF RX_PRICE_QTY_SUM(l) # 0 THEN int_of(group_qty(l)) ELSE 0,
      money |-> RX_MONEY_LINE(l),
      qty |-> qty_in_range(l),
      rub |-> RX_ANY_RUB(l)] : l \in KnownLines}

\* the outcomes for line l
fact(l) == CHOOSE f \in LineFacts : f.line = l

\* the pairs (line, line before it) that is_project_total_only accepts,
\* enumerated once
ProjectTotals ==
    {q : q \in {p \in KnownLines \X (KnownLines \cup {<< >>}) :
                    is_project_total_only(p[1], p[2])}}

\* ------------------------------------------------------------ parse_items helpers

\* qty_idx of the multiline anchor at 0-based index k of ls: the first bare
\* integer in range among lines k+1 .. end-1; -1 stands for None
qty_idx(ls, k) ==
    LET end == Min({Len(ls), k + LOOKAHEAD})
        hits == {j \in (k + 1)..(end - 1) : fact(ls[j + 1]).qty}
    IN IF hits = {} THEN -1 ELSE Min(hits)

\* sum_idx with the window open to the end of the page
sum_idx_to_page_end(ls, k) ==
    LET hits == {j \in (qty_idx(ls, k) + 1)..(Len(ls) - 1) :
                    fact(ls[j + 1]).money \/ fact(ls[j + 1]).rub}
    IN IF qty_idx(ls, k) = -1 \/ hits = {} THEN -1 ELSE Min(hits)

\* sum_idx of the multiline anchor: the first money-only or rouble-bearing
\* line among lines qty_idx+1 .. end-1; -1 stands for None
sum_idx(ls, k) ==
    LET end == Min({Len(ls), k + LOOKAHEAD})
        hits == {j \in (qty_idx(ls, k) + 1)..(end - 1) :
                    fact(ls[j + 1]).money \/ fact(ls[j + 1]).rub}
    IN IF qty_idx(ls, k) = -1 \/ hits = {} THEN -1 ELSE Min(hits)

\* the while loop of parse_items as a function of the page alone: the (name,
\* qty) pairs the scan of the lines ls adds, from 0-based index k on, in
\* totals mode tot and with the buffer b
RECURSIVE scan_page(_, _, _, _)
scan_page(ls, k, tot, b) ==
    IF k >= Len(ls) THEN << >>
    ELSE LET l == ls[k + 1]
             p == IF k > 0 THEN ls[k] ELSE << >>
             f == fact(l)
         IN IF f.is_noise \/ f.is_header_token
            THEN scan_page(ls, k + 1, tot, b)
            ELSE IF <<l, p>> \in ProjectTotals \/ f.is_totals_block
            THEN scan_page(ls, k + 1, TRUE, << >>)
            ELSE IF tot
            THEN scan_page(ls, k + 1, tot, b)
            ELSE IF f.inline
            THEN (IF clean_name_from_buffer(b) # << >>
                     /\ QTY_MIN <= f.inline_qty /\ f.inline_qty <= QTY_MAX
                  THEN << <<clean_name_from_buffer(b), f.inline_qty>> >>
                  ELSE << >>) \o scan_page(ls, k + 1, tot, << >>)
            ELSE IF f.money /\ sum_idx(ls, k) # -1
            THEN (IF clean_name_from_buffer(b) # << >>
                  THEN << <<clean_name_from_buffer(b),
                            int_of(ls[qty_idx(ls, k) + 1])>> >>
                  ELSE << >>) \o scan_page(ls, sum_idx(ls, k) + 1, tot, << >>)
            ELSE scan_page(ls, k + 1, tot, Append(b, l))

VARIABLES
    ARTICLE_MAP,         \* the module-level map loaded at import
    ARTICLE_MAP_STATUS,  \* the module-level status string of the load
    upload,              \* the uploaded file: "pdf", "other_name" or "broken_pdf"
    status,              \* the HTTP status of the response, 0 before it is sent
    debug,               \* the stats carried by the error detail, << >> when none
    counter,             \* the number in COUNTER_FILE, as _read_counter gives it
    doc,                 \* the pages of the document not yet visited
    pc,                  \* "extract": the request is received; "for": at the
                         \* page loop; "while": in the scan loop; "returned":
                         \* parse_items has returned; "done": the response is sent
    lines,               \* the normalized non-empty lines of the current page
    i,                   \* the 0-based scan index
    in_totals,
    buf,
    ordered,             \* the aggregate table, entries in insertion order
    stats,               \* pages, items_found, anchors_inline, anchors_multiline
    csv,                 \* the data rows written by make_csv_excel_friendly
    arg,                 \* the argument of a function called on its own
    out,                 \* what the function returned
    resolved,            \* history: every Resolved Item handed to the table
    counter_lock,        \* the thread that holds _counter_lock, NoThread when free
    tmp_file,            \* the file COUNTER_FILE + ".tmp"
    thread_pc,           \* where each thread is in its call of increment_counter
    local_v,             \* the local v of each thread
    result,              \* what increment_counter returned to each thread
    seen                 \* what the last call of get_counter returned

vars == <<ARTICLE_MAP, ARTICLE_MAP_STATUS, upload, status, debug, counter, doc,
          pc, lines, i, in_totals, buf, ordered, stats, csv, arg, out, resolved,
          counter_lock, tmp_file, thread_pc, local_v, result, seen>>

\* the threads that call increment_counter and get_counter on their own
threads == <<counter_lock, tmp_file, thread_pc, local_v, result, seen>>

\* the argument and the result of a function called on its own
call == <<arg, out>>

\* the request and its response, which parse_items leaves alone
request == <<upload, status, debug, counter>>

\* the current line and the one before it ("" at the top of the page)
line == lines[i + 1]
prev == IF i > 0 THEN lines[i] ELSE << >>

\* the conditions of the scan loop, in the order the code tests them
at_noise == fact(line).is_noise \/ fact(line).is_header_token
at_totals ==
    ~at_noise /\ (<<line, prev>> \in ProjectTotals \/ fact(line).is_totals_block)
at_skipped == ~at_noise /\ ~at_totals /\ in_totals
at_inline == ~at_noise /\ ~at_totals /\ ~in_totals /\ fact(line).inline
at_money ==
    /\ ~at_noise /\ ~at_totals /\ ~in_totals
    /\ ~fact(line).inline /\ fact(line).money
at_plain ==
    /\ ~at_noise /\ ~at_totals /\ ~in_totals
    /\ ~fact(line).inline /\ ~fact(line).money

\* where control goes after an iteration that leaves the index at k
loop_pc(k) == IF k < Len(lines) THEN "while" ELSE "for"

\* history: one more Resolved Item, with the page and the anchor form
record_item(name, qty, form) ==
    Append(resolved, [name |-> name, qty |-> qty, page |-> stats.pages,
                      form |-> form])

\* ------------------------------------------------------------ the counter file

\* the number of threads that call increment_counter
MaxThreads == 3
Threads == 1..MaxThreads

\* no thread holds the lock
NoThread == 0

\* the thread that serves the request, and every thread that can call
\* increment_counter
Handler == MaxThreads + 1
Callers == Threads \cup {Handler}

\* no value has been returned
NoValue == -1

\* a path with no file, and a file with its text
Absent == [exists |-> FALSE]
File(text) == [exists |-> TRUE, text |-> text]

\* _read_counter on a file: int((f.read() or "0").strip()), and 0 when the
\* file cannot be opened or int() raises
read_counter(f) ==
    IF ~f.exists THEN 0
    ELSE IF f.text = << >> THEN 0
    ELSE IF RX_INT(strip(f.text)) THEN int_of(strip(f.text))
    ELSE 0

\* no thread has called increment_counter or get_counter
NoCalls ==
    /\ counter_lock = NoThread
    /\ tmp_file = Absent
    /\ thread_pc = [t \in Callers |-> "idle"]
    /\ local_v = [t \in Callers |-> 0]
    /\ result = [t \in Callers |-> NoValue]
    /\ seen = NoValue

\* the variables of a request being served, but for the counter
serving == <<ARTICLE_MAP, ARTICLE_MAP_STATUS, upload, status, debug, doc, pc,
             lines, i, in_totals, buf, ordered, stats, csv, arg, out, resolved>>

\* thread t calls increment_counter and comes to the with statement
CallIncrement(t) ==
    /\ thread_pc[t] = "idle"
    /\ thread_pc' = [thread_pc EXCEPT ![t] = "with"]
    /\ UNCHANGED <<counter, counter_lock, tmp_file, local_v, result, seen>>
    /\ UNCHANGED serving

\* increment_counter without the with statement: the thread goes on whether
\* or not another thread is between its read and its replace
AcquireUnlocked(t) ==
    /\ thread_pc[t] = "with"
    /\ thread_pc' = [thread_pc EXCEPT ![t] = "read"]
    /\ UNCHANGED <<counter, counter_lock, tmp_file, local_v, result, seen>>
    /\ UNCHANGED serving

\* with _counter_lock: the thread takes the lock when no thread holds it
Acquire(t) ==
    /\ thread_pc[t] = "with"
    /\ counter_lock = NoThread
    /\ counter_lock' = t
    /\ thread_pc' = [thread_pc EXCEPT ![t] = "read"]
    /\ UNCHANGED <<counter, tmp_file, local_v, result, seen>>
    /\ UNCHANGED serving

\* v = _read_counter() + 1
ReadCounter(t) ==
    /\ thread_pc[t] = "read"
    /\ local_v' = [local_v EXCEPT ![t] = increment_counter(counter)]
    /\ thread_pc' = [thread_pc EXCEPT ![t] = "open"]
    /\ UNCHANGED <<counter, counter_lock, tmp_file, result, seen>>
    /\ UNCHANGED serving

\* _write_counter: open(tmp, "w") makes the file or empties it
OpenTmp(t) ==
    /\ thread_pc[t] = "open"
    /\ tmp_file' = File(<< >>)
    /\ thread_pc' = [thread_pc EXCEPT ![t] = "write"]
    /\ UNCHANGED <<counter, counter_lock, local_v, result, seen>>
    /\ UNCHANGED serving

\* _write_counter: f.write(str(v)) and the end of the with statement, which
\* closes the file
WriteTmp(t) ==
    /\ thread_pc[t] = "write"
    /\ tmp_file' = File(str_of_nat(local_v[t]))
    /\ thread_pc' = [thread_pc EXCEPT ![t] = "replace"]
    /\ UNCHANGED <<counter, counter_lock, local_v, result, seen>>
    /\ UNCHANGED serving

\* _write_counter: os.replace(tmp, COUNTER_FILE) puts the file at
\* COUNTER_FILE in one step, and raises when there is no file at tmp
Replace(t) ==
    /\ thread_pc[t] = "replace"
    /\ IF tmp_file.exists
       THEN /\ counter' = read_counter(tmp_file)
            /\ tmp_file' = Absent
            /\ UNCHANGED local_v
       ELSE /\ local_v' = [local_v EXCEPT ![t] = NoValue]
            /\ UNCHANGED <<counter, tmp_file>>
    /\ UNCHANGED serving
    /\ thread_pc' = [thread_pc EXCEPT ![t] = "return"]
    /\ UNCHANGED <<counter_lock, result, seen>>
    /\ UNCHANGED serving
    /\ UNCHANGED serving

\* return v: the with statement ends, the lock is released and the thread
\* has its value
ReturnValue(t) ==
    /\ thread_pc[t] = "return"
    /\ counter_lock' = IF counter_lock = t THEN NoThread ELSE counter_lock
    /\ result' = [result EXCEPT ![t] = local_v[t]]
    /\ thread_pc' = [thread_pc EXCEPT ![t] = "done"]
    /\ UNCHANGED <<counter, tmp_file, local_v, seen>>
    /\ UNCHANGED serving

\* get_counter, called by one more thread at any moment: _read_counter with
\* no lock; it opens COUNTER_FILE, which os.replace changes in one step
GetCounter ==
    /\ seen' = counter
    /\ UNCHANGED <<counter, counter_lock, tmp_file, thread_pc, local_v, result>>
    /\ UNCHANGED serving

\* ------------------------------------------------------------ the program

\* the module is imported in an environment of envs, the counter file holds a
\* number of counters, and a request arrives: a file named .pdf with a
\* document of sizes line groups of blocks, a file of another name, or a file
\* named .pdf that fitz cannot read
Start(envs, blocks, sizes, counters) ==
    /\ \E o \in ImportOutcomes :
          /\ o.env \in envs
          /\ ARTICLE_MAP = o.map
          /\ ARTICLE_MAP_STATUS = o.status
    /\ \/ /\ upload = "pdf"
          /\ \E n \in sizes :
                \E bs \in [1..n -> blocks], starts \in SUBSET (2..n) :
                    doc = pages_of(bs, starts, n)
       \/ /\ upload \in {"other_name", "broken_pdf"}
          /\ doc = << >>
    /\ status = 0
    /\ debug = << >>
    /\ counter \in counters
    /\ arg = << >>
    /\ out = << >>
    /\ pc = "extract"
    /\ lines = << >>
    /\ i = 0
    /\ in_totals = FALSE
    /\ buf = << >>
    /\ ordered = << >>
    /\ stats = [pages |-> 0, items_found |-> 0, anchors_inline |-> 0,
                anchors_multiline |-> 0]
    /\ csv = << >>
    /\ resolved = << >>
    /\ NoCalls

\* the lookup sheet has loaded and the counter file is absent
Init == Start(Installed, Blocks, DocSizes, {0})

\* any environment of the import and any number in the counter file
InitEnv == Start(Environments, Blocks, EnvDocSizes, CounterStarts)

\* as Init, with the documents made of ScanBlocks
InitScan == Start(Installed, ScanBlocks, DocSizes, {0})

\* as Init, with the documents made of WindowBlocks
InitWindow == Start(Installed, WindowBlocks, DocSizes, {0})

\* if not file.filename.lower().endswith(".pdf"): raise HTTPException(400)
RejectName ==
    /\ pc = "extract"
    /\ upload = "other_name"
    /\ status' = HTTP_BAD_REQUEST
    /\ pc' = "done"
    /\ UNCHANGED <<threads, ARTICLE_MAP, ARTICLE_MAP_STATUS, call, upload, debug, counter, doc,
                   lines, i, in_totals, buf, ordered, stats, csv, resolved>>

\* parse_items raises (fitz.open cannot read the bytes): HTTPException(500)
ParseFails ==
    /\ pc = "extract"
    /\ upload = "broken_pdf"
    /\ status' = HTTP_SERVER_ERROR
    /\ pc' = "done"
    /\ UNCHANGED <<threads, ARTICLE_MAP, ARTICLE_MAP_STATUS, call, upload, debug, counter, doc,
                   lines, i, in_totals, buf, ordered, stats, csv, resolved>>

\* the file name ends in .pdf and fitz.open reads the bytes: parse_items
\* starts with an empty table, an empty buffer and zeroed stats
OpenDocument ==
    /\ pc = "extract"
    /\ upload = "pdf"
    /\ ordered' = << >>
    /\ buf' = << >>
    /\ stats' = [pages |-> 0, items_found |-> 0, anchors_inline |-> 0,
                 anchors_multiline |-> 0]
    /\ pc' = "for"
    /\ UNCHANGED <<threads, ARTICLE_MAP, ARTICLE_MAP_STATUS, call, request, doc, lines, i,
                   in_totals, csv, resolved>>

\* the page loop with in_totals set once, before the loop: a processed page
\* starts in the mode the page before it ended in
NextPageKeepsTotals ==
    /\ pc = "for"
    /\ doc # << >>
    /\ doc' = Tail(doc)
    /\ stats' = [stats EXCEPT !.pages = @ + 1]
    /\ IF ~has_rub(Head(doc)) \/ page_lines(Head(doc)) = << >>
       THEN /\ pc' = "for"
            /\ UNCHANGED <<lines, i, in_totals, buf>>
       ELSE /\ lines' = page_lines(Head(doc))
            /\ UNCHANGED in_totals
            /\ buf' = << >>
            /\ i' = 0
            /\ pc' = "while"
    /\ UNCHANGED <<threads, ARTICLE_MAP, ARTICLE_MAP_STATUS, call, request, ordered, csv, resolved>>

\* the page loop without buf.clear(): a processed page starts with the buffer
\* the page before it left
NextPageKeepsBuffer ==
    /\ pc = "for"
    /\ doc # << >>
    /\ doc' = Tail(doc)
    /\ stats' = [stats EXCEPT !.pages = @ + 1]
    /\ IF ~has_rub(Head(doc)) \/ page_lines(Head(doc)) = << >>
       THEN /\ pc' = "for"
            /\ UNCHANGED <<lines, i, in_totals, buf>>
       ELSE /\ lines' = page_lines(Head(doc))
            /\ in_totals' = FALSE
            /\ UNCHANGED buf
            /\ i' = 0
            /\ pc' = "while"
    /\ UNCHANGED <<threads, ARTICLE_MAP, ARTICLE_MAP_STATUS, call, request, ordered, csv, resolved>>

\* the page loop with stats["pages"] += 1 after the tests that skip a page:
\* only the scanned pages are counted
NextPageCountsScanned ==
    /\ pc = "for"
    /\ doc # << >>
    /\ doc' = Tail(doc)
    /\ IF ~has_rub(Head(doc)) \/ page_lines(Head(doc)) = << >>
       THEN /\ pc' = "for"
            /\ UNCHANGED <<stats, lines, i, in_totals, buf>>
       ELSE /\ stats' = [stats EXCEPT !.pages = @ + 1]
            /\ lines' = page_lines(Head(doc))
            /\ in_totals' = FALSE
            /\ buf' = << >>
            /\ i' = 0
            /\ pc' = "while"
    /\ UNCHANGED <<threads, ARTICLE_MAP, ARTICLE_MAP_STATUS, call, request, ordered, csv, resolved>>

\* for page in doc: the next page text; a page without a rouble sign or
\* without lines is skipped, otherwise the scan starts with an empty buffer
NextPage ==
    /\ pc = "for"
    /\ doc # << >>
    /\ doc' = Tail(doc)
    /\ stats' = [stats EXCEPT !.pages = @ + 1]
    /\ IF ~has_rub(Head(doc)) \/ page_lines(Head(doc)) = << >>
       THEN /\ pc' = "for"
            /\ UNCHANGED <<lines, i, in_totals, buf>>
       ELSE /\ lines' = page_lines(Head(doc))
            /\ in_totals' = FALSE
            /\ buf' = << >>
            /\ i' = 0
            /\ pc' = "while"
    /\ UNCHANGED <<threads, ARTICLE_MAP, ARTICLE_MAP_STATUS, call, request, ordered, csv, resolved>>

\* the skip of a noise or header line with buf.clear(): the name lines read
\* so far are lost
SkipNoiseClearsBuffer ==
    /\ pc = "while"
    /\ at_noise
    /\ buf' = << >>
    /\ i' = i + 1
    /\ pc' = loop_pc(i + 1)
    /\ UNCHANGED <<threads, ARTICLE_MAP, ARTICLE_MAP_STATUS, call, request, doc, lines, in_totals,
                   ordered, stats, csv, resolved>>

\* if is_noise(line) or is_header_token(line): i += 1; continue
SkipNoise ==
    /\ pc = "while"
    /\ at_noise
    /\ i' = i + 1
    /\ pc' = loop_pc(i + 1)
    /\ UNCHANGED <<threads, ARTICLE_MAP, ARTICLE_MAP_STATUS, call, request, doc, lines, in_totals, buf,
                   ordered, stats, csv, resolved>>

\* if is_project_total_only(line, prev) or is_totals_block(line):
\* in_totals = True; buf.clear(); i += 1; continue
EnterTotals ==
    /\ pc = "while"
    /\ at_totals
    /\ in_totals' = TRUE
    /\ buf' = << >>
    /\ i' = i + 1
    /\ pc' = loop_pc(i + 1)
    /\ UNCHANGED <<threads, ARTICLE_MAP, ARTICLE_MAP_STATUS, call, request, doc, lines, ordered, stats,
                   csv, resolved>>

\* the skip in totals mode without i += 1: the loop stays at the line
SkipInTotalsStays ==
    /\ pc = "while"
    /\ at_skipped
    /\ UNCHANGED vars

\* if in_totals: i += 1; continue
SkipInTotals ==
    /\ pc = "while"
    /\ at_skipped
    /\ i' = i + 1
    /\ pc' = loop_pc(i + 1)
    /\ UNCHANGED <<threads, ARTICLE_MAP, ARTICLE_MAP_STATUS, call, request, doc, lines, in_totals, buf,
                   ordered, stats, csv, resolved>>

\* the inline anchor without the test of the name: an item is added whenever
\* qty is in range
InlineAnchorAnyName ==
    /\ pc = "while"
    /\ at_inline
    /\ \E name \in {clean_name_from_buffer(buf)}, qty \in {fact(line).inline_qty} :
          IF QTY_MIN <= qty /\ qty <= QTY_MAX
          THEN /\ ordered' = ordered_add(ordered, name, qty)
               /\ stats' = [stats EXCEPT !.items_found = @ + 1,
                                         !.anchors_inline = @ + 1]
               /\ resolved' = record_item(name, qty, "inline")
          ELSE UNCHANGED <<ordered, stats, resolved>>
    /\ buf' = << >>
    /\ i' = i + 1
    /\ pc' = loop_pc(i + 1)
    /\ UNCHANGED <<threads, ARTICLE_MAP, ARTICLE_MAP_STATUS, call, request, doc, lines, in_totals, csv>>

\* the inline anchor with the buffer cleared only when an item is added: a
\* dropped candidate leaves the name lines for the next anchor
InlineAnchorKeepsBuffer ==
    /\ pc = "while"
    /\ at_inline
    /\ \E name \in {clean_name_from_buffer(buf)}, qty \in {fact(line).inline_qty} :
          IF name # << >> /\ QTY_MIN <= qty /\ qty <= QTY_MAX
          THEN /\ ordered' = ordered_add(ordered, name, qty)
               /\ stats' = [stats EXCEPT !.items_found = @ + 1,
                                         !.anchors_inline = @ + 1]
               /\ resolved' = record_item(name, qty, "inline")
               /\ buf' = << >>
          ELSE UNCHANGED <<ordered, stats, resolved, buf>>
    /\ i' = i + 1
    /\ pc' = loop_pc(i + 1)
    /\ UNCHANGED <<threads, ARTICLE_MAP, ARTICLE_MAP_STATUS, call, request, doc, lines, in_totals, csv>>

\* A) the inline anchor: the name is the cleaned buffer, the buffer is
\* cleared, an item is added when the name is non-empty and qty is in range
InlineAnchor ==
    /\ pc = "while"
    /\ at_inline
    /\ \E name \in {clean_name_from_buffer(buf)}, qty \in {fact(line).inline_qty} :
          IF name # << >> /\ QTY_MIN <= qty /\ qty <= QTY_MAX
          THEN /\ ordered' = ordered_add(ordered, name, qty)
               /\ stats' = [stats EXCEPT !.items_found = @ + 1,
                                         !.anchors_inline = @ + 1]
               /\ resolved' = record_item(name, qty, "inline")
          ELSE UNCHANGED <<ordered, stats, resolved>>
    /\ buf' = << >>
    /\ i' = i + 1
    /\ pc' = loop_pc(i + 1)
    /\ UNCHANGED <<threads, ARTICLE_MAP, ARTICLE_MAP_STATUS, call, request, doc, lines, in_totals, csv>>

\* the unresolved money line dropped: the buffer is cleared and the line is
\* not appended
MultilineUnresolvedDrops ==
    /\ pc = "while"
    /\ at_money
    /\ sum_idx(lines, i) = -1
    /\ buf' = << >>
    /\ i' = i + 1
    /\ pc' = loop_pc(i + 1)
    /\ UNCHANGED <<threads, ARTICLE_MAP, ARTICLE_MAP_STATUS, call, request, doc, lines, in_totals,
                   ordered, stats, csv, resolved>>

\* B) a money-only line with no quantity line or no sum line in the window:
\* buf.append(line); i += 1; continue
MultilineUnresolved ==
    /\ pc = "while"
    /\ at_money
    /\ sum_idx(lines, i) = -1
    /\ buf' = Append(buf, line)
    /\ i' = i + 1
    /\ pc' = loop_pc(i + 1)
    /\ UNCHANGED <<threads, ARTICLE_MAP, ARTICLE_MAP_STATUS, call, request, doc, lines, in_totals,
                   ordered, stats, csv, resolved>>

\* the multiline anchor with i += 1 in place of i = sum_idx + 1: the scan goes
\* on at the line after the price line
MultilineAnchorStepsOne ==
    /\ pc = "while"
    /\ at_money
    /\ sum_idx(lines, i) # -1
    /\ \E name \in {clean_name_from_buffer(buf)},
             qty \in {int_of(lines[qty_idx(lines, i) + 1])} :
          IF name # << >>
          THEN /\ ordered' = ordered_add(ordered, name, qty)
               /\ stats' = [stats EXCEPT !.items_found = @ + 1,
                                         !.anchors_multiline = @ + 1]
               /\ resolved' = record_item(name, qty, "multiline")
          ELSE UNCHANGED <<ordered, stats, resolved>>
    /\ buf' = << >>
    /\ i' = i + 1
    /\ pc' = loop_pc(i + 1)
    /\ UNCHANGED <<threads, ARTICLE_MAP, ARTICLE_MAP_STATUS, call, request, doc, lines, in_totals, csv>>

\* B) the multiline anchor resolved: the name is the cleaned buffer, the
\* buffer is cleared, an item is added when the name is non-empty, and the
\* scan goes to the line after the sum line
MultilineAnchor ==
    /\ pc = "while"
    /\ at_money
    /\ sum_idx(lines, i) # -1
    /\ \E name \in {clean_name_from_buffer(buf)},
             qty \in {int_of(lines[qty_idx(lines, i) + 1])} :
          IF name # << >>
          THEN /\ ordered' = ordered_add(ordered, name, qty)
               /\ stats' = [stats EXCEPT !.items_found = @ + 1,
                                         !.anchors_multiline = @ + 1]
               /\ resolved' = record_item(name, qty, "multiline")
          ELSE UNCHANGED <<ordered, stats, resolved>>
    /\ buf' = << >>
    /\ i' = sum_idx(lines, i) + 1
    /\ pc' = loop_pc(sum_idx(lines, i) + 1)
    /\ UNCHANGED <<threads, ARTICLE_MAP, ARTICLE_MAP_STATUS, call, request, doc, lines, in_totals, csv>>

\* buf.append(line); i += 1
AppendPlain ==
    /\ pc = "while"
    /\ at_plain
    /\ buf' = Append(buf, line)
    /\ i' = i + 1
    /\ pc' = loop_pc(i + 1)
    /\ UNCHANGED <<threads, ARTICLE_MAP, ARTICLE_MAP_STATUS, call, request, doc, lines, in_totals,
                   ordered, stats, csv, resolved>>

\* return list(ordered.items()), stats: the document has no more pages
Return ==
    /\ pc = "for"
    /\ doc = << >>
    /\ pc' = "returned"
    /\ UNCHANGED <<threads, ARTICLE_MAP, ARTICLE_MAP_STATUS, call, request, doc, lines, i, in_totals, buf,
                   ordered, stats, csv, resolved>>

\* extract, without rows: raise HTTPException(422) with debug={stats} in the
\* detail; no CSV is made and increment_counter is not reached
NoRows ==
    /\ pc = "returned"
    /\ ordered = << >>
    /\ status' = HTTP_UNPROCESSABLE
    /\ debug' = <<stats>>
    /\ pc' = "done"
    /\ UNCHANGED <<threads, ARTICLE_MAP, ARTICLE_MAP_STATUS, call, upload, counter, doc, lines, i,
                   in_totals, buf, ordered, stats, csv, resolved>>

\* extract without increment_counter(): the CSV is made and the handler goes
\* on to the response
MakeCsvUncounted ==
    /\ pc = "returned"
    /\ ordered # << >>
    /\ thread_pc[Handler] = "idle"
    /\ csv' = make_csv_excel_friendly(ordered, ARTICLE_MAP)
    /\ thread_pc' = [thread_pc EXCEPT ![Handler] = "done"]
    /\ UNCHANGED <<ARTICLE_MAP, ARTICLE_MAP_STATUS, call, request, doc, pc, lines, i,
                   in_totals, buf, ordered, stats, resolved, counter_lock, tmp_file,
                   local_v, result, seen>>

\* extract, with rows: csv_bytes = make_csv_excel_friendly(rows), then the
\* call of increment_counter(), which comes to its with statement; the steps
\* of increment_counter follow one by one, other threads running in between
MakeCsv ==
    /\ pc = "returned"
    /\ ordered # << >>
    /\ thread_pc[Handler] = "idle"
    /\ csv' = make_csv_excel_friendly(ordered, ARTICLE_MAP)
    /\ thread_pc' = [thread_pc EXCEPT ![Handler] = "with"]
    /\ UNCHANGED <<ARTICLE_MAP, ARTICLE_MAP_STATUS, call, request, doc, pc, lines, i,
                   in_totals, buf, ordered, stats, resolved, counter_lock, tmp_file,
                   local_v, result, seen>>

\* return Response(content=csv_bytes, ...), after increment_counter() has
\* returned
Respond ==
    /\ pc = "returned"
    /\ thread_pc[Handler] = "done"
    /\ status' = HTTP_OK
    /\ pc' = "done"
    /\ UNCHANGED <<threads, ARTICLE_MAP, ARTICLE_MAP_STATUS, call, upload, debug, counter, doc,
                   lines, i, in_totals, buf, ordered, stats, csv, resolved>>

Next ==
    \/ RejectName
    \/ ParseFails
    \/ OpenDocument
    \/ NextPage
    \/ SkipNoise
    \/ EnterTotals
    \/ SkipInTotals
    \/ InlineAnchor
    \/ MultilineUnresolved
    \/ MultilineAnchor
    \/ AppendPlain
    \/ Return
    \/ NoRows
    \/ MakeCsv
    \/ Acquire(Handler)
    \/ ReadCounter(Handler)
    \/ OpenTmp(Handler)
    \/ WriteTmp(Handler)
    \/ Replace(Handler)
    \/ ReturnValue(Handler)
    \/ Respond

Spec == Init /\ [][Next]_vars

\* the request is served while another thread calls get_counter, as the
\* handlers of /stats and /health do, at any moment
NextEnv ==
    \/ Next
    \/ GetCounter

SpecEnv == InitEnv /\ [][NextEnv]_vars

SpecScan == InitScan /\ [][Next]_vars

SpecWindow == InitWindow /\ [][Next]_vars

\* the steps of the handler that build no name and no CSV
Steps ==
    \/ RejectName
    \/ ParseFails
    \/ OpenDocument
    \/ NextPage
    \/ SkipNoise
    \/ EnterTotals
    \/ SkipInTotals
    \/ MultilineUnresolved
    \/ AppendPlain
    \/ Return
    \/ NoRows
    \/ Acquire(Handler)
    \/ ReadCounter(Handler)
    \/ OpenTmp(Handler)
    \/ WriteTmp(Handler)
    \/ Replace(Handler)
    \/ ReturnValue(Handler)
    \/ Respond

\* the steps that build a name or the CSV, and the branch conditions under
\* which the code takes them: each of the three moves the index or starts the
\* call of increment_counter, so builds_enabled is ENABLED <<Builds>>_vars
Builds == InlineAnchor \/ MultilineAnchor \/ MakeCsv
inline_enabled == pc = "while" /\ at_inline
multiline_enabled == pc = "while" /\ at_money /\ sum_idx(lines, i) # -1
csv_enabled == pc = "returned" /\ ordered # << >> /\ thread_pc[Handler] = "idle"
builds_enabled == inline_enabled \/ multiline_enabled \/ csv_enabled

\* the request handler is one synchronous call that runs to its end: no await
\* or lock of the code can hold a step back for ever once it is enabled.  This
\* is weak fairness of Steps and of Builds; the second is written out, WF_v(A)
\* being []<>~(ENABLED <<A>>_v) \/ []<><<A>>_v, with the enabling condition
\* given by the branch conditions
Fairness ==
    /\ WF_vars(Steps)
    /\ ([]<>~builds_enabled \/ []<><<Builds>>_vars)

SpecLive == InitWindow /\ [][Next]_vars /\ Fairness

\* ------------------------------------------------------------ normalize_space on its own

\* no request is being served
NoRequest ==
    /\ ARTICLE_MAP = EmptyMap
    /\ ARTICLE_MAP_STATUS = "openpyxl_not_installed"
    /\ upload = "pdf"
    /\ doc = << >>
    /\ status = 0
    /\ debug = << >>
    /\ counter = 0
    /\ lines = << >>
    /\ i = 0
    /\ in_totals = FALSE
    /\ buf = << >>
    /\ ordered = << >>
    /\ stats = [pages |-> 0, items_found |-> 0, anchors_inline |-> 0,
                anchors_multiline |-> 0]
    /\ csv = << >>
    /\ resolved = << >>
    /\ NoCalls

\* normalize_space is called with any string of at most MaxLen characters
InitNormalize ==
    /\ NoRequest
    /\ \E n \in 0..MaxLen : arg \in [1..n -> Chars]
    /\ out = << >>
    /\ pc = "normalize"

\* out = normalize_space(arg)
Normalize ==
    /\ pc = "normalize"
    /\ out' = normalize_space(arg)
    /\ pc' = "normalized"
    /\ UNCHANGED <<threads, ARTICLE_MAP, ARTICLE_MAP_STATUS, request, doc, lines, i,
                   in_totals, buf, ordered, stats, csv, arg, resolved>>

\* out = normalize_space(out): the result is normalized once more
NormalizeAgain ==
    /\ pc = "normalized"
    /\ out' = normalize_space(out)
    /\ pc' = "renormalized"
    /\ UNCHANGED <<threads, ARTICLE_MAP, ARTICLE_MAP_STATUS, request, doc, lines, i,
                   in_totals, buf, ordered, stats, csv, arg, resolved>>

NextNormalize ==
    \/ Normalize
    \/ NormalizeAgain

SpecNormalize == InitNormalize /\ [][NextNormalize]_vars


\* ------------------------------------------------------------ clean_name_from_buffer on its own

\* clean_name_from_buffer is called with any buffer of at most MaxBuf lines
InitClean ==
    /\ NoRequest
    /\ \E n \in 0..MaxBuf : arg \in [1..n -> BufLines]
    /\ out = << >>
    /\ pc = "clean"

\* out = clean_name_from_buffer(arg)
Clean ==
    /\ pc = "clean"
    /\ out' = clean_name_from_buffer(arg)
    /\ pc' = "cleaned"
    /\ UNCHANGED <<threads, ARTICLE_MAP, ARTICLE_MAP_STATUS, request, doc, lines, i,
                   in_totals, buf, ordered, stats, csv, arg, resolved>>

NextClean == Clean

SpecClean == InitClean /\ [][NextClean]_vars

\* ------------------------------------------------------------ properties

\* the names of the entries of a table or of a history
entry_names(items) == {items[k].name : k \in 1..Len(items)}

\* the sum of the quantities of the entries named n
RECURSIVE quantity_sum(_, _)
quantity_sum(items, n) ==
    IF items = << >> THEN 0
    ELSE (IF Head(items).name = n THEN Head(items).qty ELSE 0)
         + quantity_sum(Tail(items), n)

\* the step adds quantity q to name n in the aggregate table and changes no
\* other name
adds_to_table(n, q) ==
    \A m \in entry_names(ordered) \cup entry_names(ordered') :
        quantity_sum(ordered', m) =
            quantity_sum(ordered, m) + (IF m = n THEN q ELSE 0)

\* C1: every step of parse_items that changes the aggregate table adds to one
\* name a quantity q with 1 <= q <= 500, every Resolved Item carries such a
\* quantity, and an inline anchor whose quantity group is outside 1..500
\* leaves the table as it is.
C1_QuantityInRange ==
    [][/\ ordered' # ordered =>
             \E n \in entry_names(ordered') :
                /\ quantity_sum(ordered', n) - quantity_sum(ordered, n) \in 1..500
                /\ adds_to_table(n, quantity_sum(ordered', n)
                                      - quantity_sum(ordered, n))
       /\ \A k \in 1..Len(resolved') : resolved'[k].qty \in 1..500
       /\ (pc = "while" /\ at_inline /\ int_of(group_qty(line)) \notin 1..500)
             => ordered' = ordered /\ resolved' = resolved]_vars

\* C1 witness: an item has been resolved, and the scan has just passed an
\* inline anchor with quantity 0 that stood under a name line
C1_Witness ==
    /\ resolved # << >>
    /\ ~in_totals
    /\ i >= 2 /\ i <= Len(lines)
    /\ fact(lines[i]).inline /\ int_of(group_qty(lines[i])) = 0
    /\ clean_name_from_buffer(<<lines[i - 1]>>) # << >>
    /\ buf = << >>

\* C2: no key of the aggregate table is the empty string, and a step taken at
\* an anchor line (inline, or money-only in the multiline branch) where
\* clean_name_from_buffer gives the empty name emits no item and leaves
\* items_found as it is.
C2_NoEmptyName ==
    [][/\ \A k \in 1..Len(ordered') : ordered'[k].name # << >>
       /\ (pc = "while" /\ (at_inline \/ at_money)
           /\ clean_name_from_buffer(buf) = << >>)
             => /\ ordered' = ordered
                /\ resolved' = resolved
                /\ stats'.items_found = stats.items_found]_vars

\* C2 witness: the first page held a dimension line and then an inline anchor
\* with a quantity in range; the buffer was not empty, its cleaned name was,
\* and no item has been counted
C2_Witness ==
    /\ stats.pages = 1 /\ stats.items_found = 0 /\ ordered = << >>
    /\ i = 2 /\ Len(lines) >= 2
    /\ ~fact(lines[1]).money /\ ~fact(lines[1]).inline /\ ~fact(lines[1]).is_noise
    /\ clean_name_from_buffer(<<lines[1]>>) = << >>
    /\ fact(lines[2]).inline /\ int_of(group_qty(lines[2])) \in 1..500
    /\ buf = << >>

\* the index in the history of the first Resolved Item named n
first_resolved(n) == Min({k \in 1..Len(resolved) : resolved[k].name = n})

\* C3: the aggregate table has exactly one entry per distinct name resolved so
\* far; its quantity is the sum of the quantities of all Resolved Items of that
\* name over all pages, and the entries stand in the order in which each name
\* was first resolved.  This holds in every state, so also of the returned list.
C3_SumInFirstResolvedOrder ==
    /\ entry_names(ordered) = entry_names(resolved)
    /\ \A j, k \in 1..Len(ordered) : j # k => ordered[j].name # ordered[k].name
    /\ \A k \in 1..Len(ordered) :
          ordered[k].qty = quantity_sum(resolved, ordered[k].name)
    /\ \A j, k \in 1..Len(ordered) :
          j < k => first_resolved(ordered[j].name) < first_resolved(ordered[k].name)

\* C3 witness: parse_items has returned two entries from three Resolved Items,
\* the name of the first entry resolved again on a later page than the second
C3_Witness ==
    /\ pc = "returned"
    /\ Len(ordered) = 2 /\ Len(resolved) = 3
    /\ resolved[3].name = ordered[1].name
    /\ resolved[3].page > resolved[2].page
    /\ ordered[1].qty = resolved[1].qty + resolved[3].qty

\* C4: totals mode is terminal per page and reset per page: the step at a
\* line classified as totals-block or project-total line sets in_totals and
\* empties the buffer; every later step of that page keeps in_totals, keeps the
\* buffer empty and emits no item; the step that starts the scan of the next
\* processed page sets in_totals to false with an empty buffer.
C4_TotalsTerminalPerPage ==
    [][/\ (pc = "while" /\ at_totals) => (in_totals' /\ buf' = << >>)
       /\ (pc = "while" /\ in_totals)
             => /\ in_totals'
                /\ buf = << >> /\ buf' = << >>
                /\ ordered' = ordered
                /\ resolved' = resolved
                /\ stats'.items_found = stats.items_found
       /\ (pc = "for" /\ pc' = "while")
             => (~in_totals' /\ buf' = << >> /\ i' = 0)]_vars

\* C4 witness: the second page has ended in totals mode after the scan passed
\* an inline anchor with quantity 1 under the totals line, and every Resolved
\* Item comes from the first page
C4_Witness ==
    /\ pc = "for" /\ stats.pages = 2
    /\ in_totals /\ buf = << >>
    /\ i >= 2 /\ i = Len(lines)
    /\ fact(lines[i]).inline /\ fact(lines[i]).inline_qty = 1
    /\ resolved # << >>
    /\ \A k \in 1..Len(resolved) : resolved[k].page = 1

\* a line the scan appends to the buffer as a name line
plain_name_line(l) ==
    /\ ~is_noise(l) /\ ~is_header_token(l) /\ ~is_totals_block(l)
    /\ ~RX_MONEY_LINE(l) /\ ~RX_INT(l) /\ RX_PRICE_QTY_SUM(l) = 0

\* the page is one or more name lines, a money-only price below 10000, a
\* bare integer in 1..500 and a money-only sum
multiline_page(ls) ==
    /\ Len(ls) >= 4
    /\ \A k \in 1..(Len(ls) - 3) : plain_name_line(ls[k])
    /\ RX_MONEY_LINE(ls[Len(ls) - 2])
    /\ money_to_number(ls[Len(ls) - 2]) < PROJECT_TOTAL_MIN
    /\ qty_in_range(ls[Len(ls) - 1])
    /\ RX_MONEY_LINE(ls[Len(ls)])

\* the Resolved Items of page p, as (name, qty) pairs
items_of_page(h, p) ==
    LET own == SelectSeq(h, LAMBDA r : r.page = p)
    IN [k \in 1..Len(own) |-> <<own[k].name, own[k].qty>>]

\* C5 as claimed: when the scan of a page of that shape ends, exactly one
\* Resolved Item has been emitted from the page, its quantity the integer line
\* and its name a non-empty text, the cleaned name of the name lines.
C5_Claimed ==
    [][(pc = "while" /\ pc' = "for" /\ multiline_page(lines))
          => /\ Len(items_of_page(resolved', stats.pages)) = 1
             /\ items_of_page(resolved', stats.pages)[1][2]
                   = int_of(lines[Len(lines) - 1])
             /\ items_of_page(resolved', stats.pages)[1][1] # << >>]_vars

\* C6: a step at an inline anchor line takes the middle numeric group as the
\* quantity and the cleaned buffer as the name; with 1 <= qty <= 500 and a
\* non-empty name exactly one item (name, qty) is emitted, through the inline
\* anchor, otherwise nothing is emitted; either way the buffer is cleared, the
\* scan advances by one line and the line is not taken as a multiline anchor.
\* The buffer ["Полка 300x200"] at the line "450 ₽ 1 450 ₽" gives
\* ("Полка 300x200", 1).
C6_InlineAnchor ==
    [][(pc = "while" /\ at_inline) =>
          \E name \in {clean_name_from_buffer(buf)},
             qty \in {int_of(group_qty(line))} :
             /\ IF qty \in 1..500 /\ name # << >>
                THEN /\ resolved' = Append(resolved,
                           [name |-> name, qty |-> qty,
                            page |-> stats.pages, form |-> "inline"])
                     /\ adds_to_table(name, qty)
                     /\ stats'.items_found = stats.items_found + 1
                     /\ stats'.anchors_inline = stats.anchors_inline + 1
                ELSE ordered' = ordered /\ resolved' = resolved /\ stats' = stats
             /\ buf' = << >>
             /\ i' = i + 1
             /\ stats'.anchors_multiline = stats.anchors_multiline
             /\ (buf = <<<<1055, 1086, 1083, 1082, 1072, 32, 51, 48, 48, 120, 50, 48, 48>>>> /\ line = <<52, 53, 48, 32, 8381, 32, 49, 32, 52, 53, 48, 32, 8381>>)  \* "Полка 300x200" "450 ₽ 1 450 ₽"
                   => /\ resolved'[Len(resolved')].name = <<1055, 1086, 1083, 1082, 1072, 32, 51, 48, 48, 120, 50, 48, 48>>  \* "Полка 300x200"
                      /\ resolved'[Len(resolved')].qty = 1]_vars

\* C6 witness: the page ["Полка 300x200", "450 ₽ 1 450 ₽"] has been scanned:
\* the last Resolved Item is ("Полка 300x200", 1) from the inline anchor, the
\* buffer is empty and the scan stands one line after the anchor
C6_Witness ==
    /\ lines = <<<<1055, 1086, 1083, 1082, 1072, 32, 51, 48, 48, 120, 50, 48, 48>>, <<52, 53, 48, 32, 8381, 32, 49, 32, 52, 53, 48, 32, 8381>>>>  \* "Полка 300x200" "450 ₽ 1 450 ₽"
    /\ i = 2
    /\ buf = << >>
    /\ resolved # << >>
    /\ resolved[Len(resolved)] =
          [name |-> <<1055, 1086, 1083, 1082, 1072, 32, 51, 48, 48, 120, 50, 48, 48>>, qty |-> 1, page |-> stats.pages,  \* "Полка 300x200"
           form |-> "inline"]
    /\ stats.anchors_inline >= 1

\* C7 as claimed: a step at a money-only line of the multiline branch whose
\* next line is a bare integer outside 1..500 emits no item, clears the buffer
\* and moves the scan past the lines of the candidate (more than one line on).
C7_Claimed ==
    [][(pc = "while" /\ at_money /\ i + 2 <= Len(lines)
        /\ RX_INT(lines[i + 2]) /\ ~qty_in_range(lines[i + 2]))
          => /\ ordered' = ordered /\ resolved' = resolved
             /\ buf' = << >>
             /\ i' > i + 1]_vars

\* an identifier cell that is empty or zero: None, "", the number 0 or "0"
empty_or_zero(c) ==
    \/ c.t = "none"
    \/ c.t = "int" /\ c.v = 0
    \/ c.t = "str" /\ normalize_space(c.v) \in {<< >>, <<48>>}  \* "0"

\* C8 as claimed, seen when the CSV rows are written: no value of the map is
\* "" or "0", a row of the lookup sheet whose identifier is empty or zero has
\* added no entry to the map, and the CSV row of a resolved item with the name
\* of such a row has the empty identifier.
C8_Claimed ==
    pc = "done" =>
       /\ \A key \in DOMAIN ARTICLE_MAP : ARTICLE_MAP[key] \notin {<< >>, <<48>>}  \* "0"
       /\ \A sheet \in Sheets : \A r \in 1..Len(sheet.rows) :
             LET tovar == sheet.rows[r][tovar_col(header_of(sheet))]
                 val == sheet.rows[r][value_col(header_of(sheet))]
             IN (truthy(tovar) /\ empty_or_zero(val)) =>
                   /\ normalize_key(str_of(tovar)) \notin DOMAIN ARTICLE_MAP
                   /\ \A k \in 1..Len(csv) :
                         normalize_key(csv[k].name) = normalize_key(str_of(tovar))
                            => csv[k].id = << >>

\* C9: parsing and CSV generation never change the article map, and the data
\* rows written are the returned rows in their order, each with the map value
\* stored under normalize_key(name) as identifier, or "" when the map has no
\* such key.  With the sheet row (Стол, A-100) the name "Стол" gets "A-100".
C9_IdentifierLookup ==
    [][/\ ARTICLE_MAP' = ARTICLE_MAP
       /\ pc' = "done" =>
             /\ Len(csv') = Len(ordered')
             /\ \A k \in 1..Len(csv') :
                   /\ csv'[k].name = ordered'[k].name
                   /\ csv'[k].qty = ordered'[k].qty
                   /\ csv'[k].id =
                         (IF normalize_key(csv'[k].name) \in DOMAIN ARTICLE_MAP
                          THEN ARTICLE_MAP[normalize_key(csv'[k].name)]
                          ELSE << >>)
                   /\ csv'[k].name = <<1057, 1090, 1086, 1083>> => csv'[k].id = <<65, 45, 49, 48, 48>>]_vars  \* "Стол" "A-100"

\* C9 witness: the CSV rows are written, one for "Стол" with the identifier
\* "A-100" and one for a name the map does not hold, with the empty identifier
C9_Witness ==
    /\ pc = "done"
    /\ \E k \in 1..Len(csv) : csv[k].name = <<1057, 1090, 1086, 1083>> /\ csv[k].id = <<65, 45, 49, 48, 48>>  \* "Стол" "A-100"
    /\ \E k \in 1..Len(csv) :
          /\ normalize_key(csv[k].name) \notin DOMAIN ARTICLE_MAP
          /\ csv[k].id = << >>

\* C10 as claimed, for a buffer of one name line: a bare "300x200" stays in
\* the cleaned name, and when the line holds a dimension followed by "мм" the
\* cleaned name is the line without exactly that substring, so
\* "Полка 607x14x405 мм" gives "Полка".
C10_Claimed ==
    (pc = "while" /\ Len(buf) = 1 /\ plain_name_line(buf[1])) =>
        \E name \in {clean_name_from_buffer(buf)} :
           /\ contains(buf[1], <<51, 48, 48, 120, 50, 48, 48>>) => contains(name, <<51, 48, 48, 120, 50, 48, 48>>)  \* "300x200" "300x200"
           /\ strip_dims_anywhere(buf[1]) # buf[1]
                 => name = strip_dims_anywhere(buf[1])
           /\ buf[1] = <<1055, 1086, 1083, 1082, 1072, 32, 54, 48, 55, 120, 49, 52, 120, 52, 48, 53, 32, 1084, 1084>> => name = <<1055, 1086, 1083, 1082, 1072>>  \* "Полка 607x14x405 мм" "Полка"

\* C11: when parse_items has returned no rows, extract answers with status 422
\* whose detail carries the stats, makes no CSV and leaves the conversion
\* counter alone; the counter changes only by one, in the os.replace of the
\* increment_counter a request calls once it has its CSV and before it
\* answers, and not again after it; the CSV is sent with status 200 only when
\* that call has returned the stored counter; and once a response is sent
\* neither the response nor the counter changes again.  Another thread may
\* call get_counter between any two steps of the request.
C11_ZeroResultsAndCounter ==
    [][/\ (pc = "returned" /\ ordered = << >>) =>
            /\ csv = << >> /\ csv' = << >>
            /\ counter' = counter
            /\ thread_pc'[Handler] = "idle"
            /\ \/ /\ status' = HTTP_UNPROCESSABLE
                  /\ debug' = <<stats>>
                  /\ pc' = "done"
               \/ UNCHANGED <<pc, status, debug>>
       /\ counter' # counter =>
            /\ counter' = counter + 1
            /\ counter' = local_v[Handler]
            /\ thread_pc[Handler] = "replace" /\ thread_pc'[Handler] = "return"
            /\ status = 0 /\ status' = 0
            /\ csv # << >>
       /\ thread_pc[Handler] \in {"return", "done"} => counter' = counter
       /\ (status = 0 /\ status' = HTTP_OK) =>
            /\ thread_pc[Handler] = "done"
            /\ result[Handler] = counter /\ counter' = counter
            /\ csv' = make_csv_excel_friendly(ordered, ARTICLE_MAP)
            /\ debug' = << >>
       /\ status' \in {HTTP_BAD_REQUEST, HTTP_SERVER_ERROR} =>
            /\ counter' = counter /\ csv' = << >>
            /\ thread_pc'[Handler] = "idle"
       /\ status # 0 => UNCHANGED <<status, debug, counter, csv>>
      ]_vars

\* a two-page document without any item has been answered with 422 and the
\* stats; the counter is as it was
C11_Witness ==
    /\ pc = "done"
    /\ status = HTTP_UNPROCESSABLE
    /\ debug = <<stats>>
    /\ stats.pages = 2 /\ stats.items_found = 0
    /\ csv = << >>
    /\ counter = 41

\* C12: page-order independence.  What a page adds to the table is a function
\* of the text of that page alone, whatever the pages before it left behind: a
\* page that is skipped adds nothing, and when the scan of a page ends the
\* Resolved Items of the page are those of the scan of its lines from an empty
\* buffer outside totals mode.  The table holds the sums of the Resolved Items
\* per name, so the same pages in another order give the same (name, total
\* quantity) pairs.
C12_PageOrderIndependence ==
    [][/\ (pc = "for" /\ pc' = "for") => resolved' = resolved
       /\ (pc = "for" /\ pc' = "while") =>
            /\ resolved' = resolved
            /\ lines' = page_lines(Head(doc))
            /\ i' = 0 /\ ~in_totals' /\ buf' = << >>
       /\ (pc = "while" /\ pc' = "for") =>
            items_of_page(resolved', stats.pages) = scan_page(lines, 0, FALSE, << >>)
       /\ (pc' = "returned") =>
            /\ entry_names(ordered') = entry_names(resolved')
            /\ \A n \in entry_names(resolved') :
                  ordered_get(ordered', n) = quantity_sum(resolved', n)
      ]_vars

\* the scan of a second page has ended with an item of its own, after a first
\* page that ended with a name line in the buffer and an item in the table
C12_Witness ==
    /\ pc = "for"
    /\ stats.pages = 2
    /\ Len(items_of_page(resolved, 1)) = 1
    /\ Len(items_of_page(resolved, 2)) = 1
    /\ items_of_page(resolved, 2) = scan_page(lines, 0, FALSE, << >>)
    /\ resolved[1].name # resolved[2].name

\* C13: a load of the lookup table that fails (openpyxl missing, file not
\* found, workbook not opening) is not raised: load_article_map returns the
\* empty map and the status naming the failure, and a conversion that follows
\* succeeds, every row of its CSV carrying an empty identifier.
C13_LoadFailureTolerated ==
    /\ \A o \in ImportOutcomes :
          /\ ~o.env.openpyxl => o.status = "openpyxl_not_installed"
          /\ (o.env.openpyxl /\ ~o.env.exists) => o.status = "file_not_found"
          /\ (o.env.openpyxl /\ o.env.exists /\ ~o.env.opens) =>
                o.status = "cannot_open"
          /\ o.status \in LOAD_FAILURES => o.map = EmptyMap
    /\ ARTICLE_MAP_STATUS \in LOAD_FAILURES =>
          /\ ARTICLE_MAP = EmptyMap
          /\ (pc = "done" /\ ordered # << >>) =>
                /\ status = HTTP_OK
                /\ Len(csv) = Len(ordered)
                /\ \A k \in 1..Len(csv) :
                      /\ csv[k].id = << >>
                      /\ csv[k].name = ordered[k].name
                      /\ csv[k].qty = ordered[k].qty

\* the file was not found, and a document with two different items has been
\* converted
C13_Witness ==
    /\ ARTICLE_MAP_STATUS = "file_not_found"
    /\ pc = "done" /\ status = HTTP_OK
    /\ Len(csv) = 2
    /\ csv[1].id = << >> /\ csv[2].id = << >>
    /\ csv[1].name = <<1057, 1090, 1086, 1083>>  \* "Стол"

\* C14: normalize_space is idempotent, normalize_space(normalize_space(s)) =
\* normalize_space(s), and its result has no non-breaking space, no whitespace
\* at either end and no two whitespace characters in a row.
C14_NormalizeIdempotent ==
    [][/\ pc = "normalize" =>
            /\ \A k \in 1..Len(out') : out'[k] # NBSP
            /\ out' # << >> => ~IsSpace(out'[1]) /\ ~IsSpace(out'[Len(out')])
            /\ \A k \in 1..(Len(out') - 1) :
                  ~(IsSpace(out'[k]) /\ IsSpace(out'[k + 1]))
       /\ pc = "normalized" => out' = out
      ]_vars

\* a string with a leading space and a non-breaking space next to a tab
\* inside has been normalized twice
C14_Witness ==
    /\ pc = "renormalized"
    /\ arg = <<SP, 97, NBSP, 9>> \o <<97>>
    /\ out = <<97, SP, 97>>

\* C15 as claimed: whenever the multiline anchor emits an item, no line after
\* the price line up to and including the sum line is a totals-block line or
\* a project-total line.
C15_Claimed ==
    [][(pc = "while" /\ at_money /\ sum_idx(lines, i) # -1
            /\ resolved' # resolved) =>
          \A j \in (i + 1)..sum_idx(lines, i) :
              /\ ~fact(lines[j + 1]).is_totals_block
              /\ <<lines[j + 1], lines[j]>> \notin ProjectTotals
      ]_vars

\* the lengths k of a leading integer of line l that is followed by one space
\* and a money-only rest: l is a combined "quantity sum" line
combined_splits(l) ==
    {k \in 1..(Len(l) - 2) :
        /\ k <= 4
        /\ RX_INT(SubSeq(l, 1, k))
        /\ l[k + 1] = SP
        /\ RX_MONEY_LINE(SubSeq(l, k + 2, Len(l)))}

\* C16 as claimed: at a money-only line whose next line is a combined
\* "quantity sum" line the scan resolves an anchor: the buffer is cleared, the
\* scan goes to the line after the combined line, and with a name in the
\* buffer an item is emitted whose quantity is the leading integer of the
\* combined line.
C16_Claimed ==
    [][(pc = "while" /\ at_money /\ i + 1 < Len(lines)
            /\ combined_splits(lines[i + 2]) # {}) =>
          /\ i' = i + 2
          /\ buf' = << >>
          /\ clean_name_from_buffer(buf) # << >> =>
                /\ Len(resolved') = Len(resolved) + 1
                /\ resolved'[Len(resolved')].name = clean_name_from_buffer(buf)
                /\ resolved'[Len(resolved')].qty =
                      int_of(SubSeq(lines[i + 2], 1,
                                    Min(combined_splits(lines[i + 2]))))
      ]_vars

\* the lines of a buffer that are neither money-only, nor a bare integer, nor a
\* header token, nor noise
name_lines(b) ==
    SelectSeq(b, LAMBDA ln :
        ~(looks_like_money_or_qty(ln) \/ is_header_token(ln) \/ is_noise(ln)))

\* C17 as claimed: the cleaned name holds no text of a money-only line or of a
\* bare integer at any place of the buffer and none of a header or noise line:
\* it is the other lines joined in buffer order with single spaces.
C17_Claimed ==
    pc = "cleaned" => out = join(name_lines(arg))

\* the lookahead window of the line at index k of ls holds a bare integer in
\* 1..500 and, after it, a line with a rouble sign
window_has_qty_then_sum(ls, k) ==
    \E j \in (k + 1)..(Min({Len(ls), k + LOOKAHEAD}) - 1) :
        /\ RX_INT(ls[j + 1])
        /\ int_of(ls[j + 1]) \in 1..500
        /\ \E m \in (j + 1)..(Min({Len(ls), k + LOOKAHEAD}) - 1) :
              RX_ANY_RUB(ls[m + 1])

\* C18: when the scan, outside totals mode, takes the line as a money-only
\* line and the lookahead window holds no bare integer in 1..500 followed by a
\* line with a rouble sign, the step appends that line to the end of the
\* buffer, moves the scan index by one, emits no item and leaves the table and
\* the counters as they are.
C18_UnresolvedMoneyLine ==
    [][(pc = "while" /\ at_money /\ ~window_has_qty_then_sum(lines, i)) =>
          /\ buf' = Append(buf, lines[i + 1])
          /\ i' = i + 1
          /\ resolved' = resolved
          /\ ordered' = ordered
          /\ stats' = stats
          /\ in_totals' = in_totals /\ lines' = lines
      ]_vars

\* the price line above an out-of-range integer has just been appended to the
\* buffer behind the name line, and no item has been emitted
C18_Witness ==
    /\ pc = "while"
    /\ i = 2
    /\ buf = <<<<1057, 1090, 1086, 1083>>, <<49, 32, 53, 48, 48, 32, 8381>>>>  \* "Стол" "1 500 ₽"
    /\ lines[3] = <<57, 57, 57>>  \* "999"
    /\ resolved = << >> /\ ordered = << >>
    /\ stats.anchors_multiline = 0

\* C19: every anchor resolution leaves the buffer empty, with or without an
\* item, and moves the scan index to the line after the anchor span: i + 1 for
\* the inline anchor, sum_idx + 1 for the multiline anchor.  The index only
\* moves forward within a page, and a step reads, classifies and appends no
\* line but the one at the index, so the lines strictly inside a resolved
\* multiline span are neither appended to the buffer nor classified as noise,
\* header or totals.
C19_AnchorConsumesSpan ==
    [][/\ (pc = "while" /\ at_inline) =>
            /\ buf' = << >>
            /\ i' = i + 1
       /\ (pc = "while" /\ at_money /\ window_has_qty_then_sum(lines, i)) =>
            /\ buf' = << >>
            /\ i' = sum_idx(lines, i) + 1
            /\ i' > qty_idx(lines, i) + 1
            /\ RX_ANY_RUB(lines[i'])
            /\ in_totals' = in_totals
       /\ pc = "while" =>
            /\ i' > i /\ lines' = lines
            /\ buf' \in {<< >>, buf, Append(buf, lines[i + 1])}
            /\ in_totals' # in_totals =>
                  (i' = i + 1
                   /\ (fact(lines[i + 1]).is_totals_block
                       \/ <<lines[i + 1], prev>> \in ProjectTotals))
      ]_vars

\* a multiline anchor without a name has been passed whose span holds a
\* totals-block line: no item, the buffer empty, the index behind the sum
\* line, and the page not in totals mode
C19_Witness ==
    /\ lines = <<<<49, 32, 53, 48, 48, 32, 8381>>, <<1040, 1076, 1088, 1077, 1089, 58, 32, 1052, 1086, 1089, 1082, 1074, 1072>>, <<50>>, <<51, 32, 48, 48, 48, 32, 8381>>, <<1057, 1090, 1086, 1083>>>>  \* "1 500 ₽" "Адрес: Москва" "2" "3 000 ₽" "Стол"
    /\ i = 4
    /\ pc = "while"
    /\ buf = << >>
    /\ ~in_totals
    /\ resolved = << >>

\* C20: a scan step on a noise line or a header-token line changes nothing but
\* the scan index, in totals mode as well as outside it; a scan step on a line
\* taken as totals-block or project-total line changes only in_totals, to
\* true, the buffer, to empty, and the scan index.
C20_SkipFrames ==
    [][/\ (pc = "while"
            /\ (is_noise(lines[i + 1]) \/ is_header_token(lines[i + 1]))) =>
            /\ i' = i + 1
            /\ UNCHANGED <<buf, in_totals, ordered, stats, resolved, lines, doc,
                           csv, ARTICLE_MAP>>
       /\ (pc = "while"
            /\ ~(is_noise(lines[i + 1]) \/ is_header_token(lines[i + 1]))
            /\ (is_totals_block(lines[i + 1])
                \/ is_project_total_only(lines[i + 1], prev))) =>
            /\ in_totals'
            /\ buf' = << >>
            /\ i' = i + 1
            /\ UNCHANGED <<ordered, stats, resolved, lines, doc, csv, ARTICLE_MAP>>
      ]_vars

\* a header-token line under a name line has just been skipped with the name
\* line still in the buffer
C20_Witness ==
    /\ pc = "while"
    /\ i = 2
    /\ lines[1] = <<1057, 1090, 1086, 1083>> /\ lines[2] = <<1058, 1086, 1074, 1072, 1088>>  \* "Стол" "Товар"
    /\ buf = <<<<1057, 1090, 1086, 1083>>>>  \* "Стол"
    /\ ~in_totals

\* C21: a multiline anchor at scan index i that resolves has its quantity line
\* and its sum line within the 7 lines after the money line and on the page,
\* i < qty_idx < sum_idx <= i + 7 and sum_idx < len(lines); with no bare
\* integer in 1..500 followed by a rouble-bearing line among those lines the
\* anchor does not resolve, whatever stands 8 or more lines after the money
\* line.
C21_LookaheadBound ==
    [][/\ (pc = "while" /\ at_money /\ buf' = << >>) =>
            /\ i < qty_idx(lines, i)
            /\ qty_idx(lines, i) < i' - 1
            /\ i' - 1 <= i + 7
            /\ i' - 1 < Len(lines)
            /\ RX_INT(lines[qty_idx(lines, i) + 1])
            /\ int_of(lines[qty_idx(lines, i) + 1]) \in 1..500
            /\ RX_ANY_RUB(lines[i'])
       /\ (pc = "while" /\ at_money
            /\ ~\E j \in (i + 1)..(i + 7), m \in (i + 1)..(i + 7) :
                  /\ j < m /\ m < Len(lines)
                  /\ RX_INT(lines[j + 1]) /\ int_of(lines[j + 1]) \in 1..500
                  /\ RX_ANY_RUB(lines[m + 1])) =>
            /\ buf' = Append(buf, lines[i + 1])
            /\ i' = i + 1
            /\ resolved' = resolved
      ]_vars

\* an anchor has resolved whose sum line is the 7th line after the money line
\* and the last line of the page
C21_Witness ==
    /\ Len(lines) = 9
    /\ lines[2] = <<49, 32, 53, 48, 48, 32, 8381>> /\ lines[8] = <<50>> /\ lines[9] = <<51, 32, 48, 48, 48, 32, 8381>>  \* "1 500 ₽" "2" "3 000 ₽"
    /\ i = 9
    /\ Len(resolved) = 1
    /\ resolved[1].form = "multiline" /\ resolved[1].qty = 2
    /\ buf = << >>

\* C22: the scan of every page terminates.  Every iteration of the scan loop
\* moves the scan index forward, by one or to sum_idx + 1, and never beyond the
\* number of lines of the page; every step of the page loop takes one page, so
\* the pages counted and the pages left add up to the pages of the document;
\* and parse_items, once started, returns with no page left.
C22_ScanTerminates ==
    /\ [][/\ (pc = "while") =>
               (/\ i' > i
                /\ i' <= Len(lines)
                /\ (i' = i + 1 \/ (at_money /\ i' = sum_idx(lines, i) + 1))
                /\ UNCHANGED <<lines, doc>>)
          /\ (pc \in {"for", "while"}) =>
               (Len(doc') + stats'.pages = Len(doc) + stats.pages)
          /\ (pc = "for" /\ pc' = "while") => (Len(doc') = Len(doc) - 1)
          /\ (pc' = "returned") => (doc' = << >>)
         ]_vars
    /\ [](i <= Len(lines))
    /\ (pc = "for" ~> pc = "returned")

\* parse_items has returned from a document of two pages, the last of them
\* nine lines long and scanned to its end through a multiline anchor
C22_Witness ==
    /\ pc = "returned"
    /\ stats.pages = 2
    /\ doc = << >>
    /\ Len(lines) = 9 /\ i = 9
    /\ stats.anchors_multiline = 1

\* the sum of the quantities of all the entries of a table
RECURSIVE total_quantity(_)
total_quantity(items) ==
    IF items = << >> THEN 0
    ELSE Head(items).qty + total_quantity(Tail(items))

\* C23: the statistics agree with the aggregate table in every state.  The
\* items found are the inline anchors plus the multiline anchors; the table
\* has at most that many entries; its quantities add up to at least one and
\* at most 500 for each item found; and the pages counted are the pages the
\* page loop has taken from the document, the skipped ones included: none
\* before the loop starts, and one more with every page taken.
C23_StatsConsistent ==
    /\ [](/\ stats.items_found = stats.anchors_inline + stats.anchors_multiline
          /\ Len(ordered) <= stats.items_found
          /\ total_quantity(ordered) >= QTY_MIN * stats.items_found
          /\ total_quantity(ordered) <= QTY_MAX * stats.items_found
          /\ (pc = "extract" => stats.pages = 0))
    /\ [][stats'.pages = stats.pages + (Len(doc) - Len(doc'))]_vars

\* parse_items has returned from three pages: the first two hold the same
\* multiline item each, added to one entry of the table, and the third was
\* skipped, the lines of the second still being the last ones scanned
C23_Witness ==
    /\ pc = "returned"
    /\ stats.pages = 3
    /\ lines = <<<<1057, 1090, 1086, 1083>>, <<49, 32, 53, 48, 48, 32, 8381>>, <<50>>, <<51, 32, 48, 48, 48, 32, 8381>>>>  \* "Стол" "1 500 ₽" "2" "3 000 ₽"
    /\ Len(resolved) = 2
    /\ resolved[1].page = 1 /\ resolved[2].page = 2
    /\ stats.items_found = 2 /\ stats.anchors_multiline = 2
    /\ Len(ordered) = 1 /\ ordered[1].qty = 4

\* ------------------------------------------------------------ the counter under concurrency

\* the counter file holds a number of CounterStarts and no request is served
InitCounter ==
    /\ ARTICLE_MAP = EmptyMap
    /\ ARTICLE_MAP_STATUS = "openpyxl_not_installed"
    /\ upload = "pdf"
    /\ doc = << >>
    /\ status = 0
    /\ debug = << >>
    /\ counter \in CounterStarts
    /\ pc = "counter"
    /\ lines = << >>
    /\ i = 0
    /\ in_totals = FALSE
    /\ buf = << >>
    /\ ordered = << >>
    /\ stats = [pages |-> 0, items_found |-> 0, anchors_inline |-> 0,
                anchors_multiline |-> 0]
    /\ csv = << >>
    /\ arg = << >>
    /\ out = << >>
    /\ resolved = << >>
    /\ NoCalls

NextCounter ==
    \/ \E t \in Threads : CallIncrement(t)
    \/ \E t \in Threads : Acquire(t)
    \/ \E t \in Threads : ReadCounter(t)
    \/ \E t \in Threads : OpenTmp(t)
    \/ \E t \in Threads : WriteTmp(t)
    \/ \E t \in Threads : Replace(t)
    \/ \E t \in Threads : ReturnValue(t)
    \/ GetCounter

SpecCounter == InitCounter /\ [][NextCounter]_vars

\* the threads whose call has put its file at COUNTER_FILE
have_stored == {t \in Threads : thread_pc[t] \in {"return", "done"}}

\* C24: the conversion counter under concurrency.  In every interleaving of
\* the threads that call increment_counter, the stored counter is higher than
\* at the start by the number of calls that have stored, so no update is lost
\* and the counter ends N higher after N calls; the values returned to two
\* threads differ; a file is put at COUNTER_FILE only when it is written in
\* full; and get_counter returns the counter stored at the moment it reads,
\* always one of the values the counter has held since the start.
C24_CounterConcurrent ==
    /\ [][counter' - Cardinality(have_stored') = counter - Cardinality(have_stored)]_vars
    /\ [](\A t, u \in Threads :
            (t # u /\ thread_pc[t] = "done" /\ thread_pc[u] = "done")
                => result[t] # result[u])
    /\ [](\A t \in Threads :
            thread_pc[t] = "replace" => tmp_file = File(str_of_nat(local_v[t])))
    /\ [][seen' = seen \/ seen' = counter]_vars
    /\ [](seen # NoValue =>
            /\ counter - Cardinality(have_stored) <= seen
            /\ seen <= counter)

\* three threads have returned from increment_counter on a counter of 41,
\* the thread that called first being served last, and get_counter was last
\* called between the second and the third replace
C24_Witness ==
    /\ thread_pc[1] = "done" /\ thread_pc[2] = "done" /\ thread_pc[3] = "done"
    /\ counter = 44
    /\ result[1] = 44 /\ result[2] = 43 /\ result[3] = 42
    /\ seen = 43

====
